---- MODULE Spec2Model ----
(***************************************************************************)
(* Model of the RAG ingestion pipeline: the metadata normalisation layer   *)
(* flatten_metadata / prepare_chunk_metadata                               *)
(* (src/src/utils/metadata_serializer.py), the LLM response cleaner and    *)
(* extractor (src/src/metadata/llm_extractor.py), the enrichment and the   *)
(* PDF pipeline (src/src/pipeline/ingestion.py) and the Postgres pipeline  *)
(* (src/src/pipeline/postgres_ingestion.py).                               *)
(***************************************************************************)
EXTENDS Integers, Sequences, FiniteSets, TLC

VARIABLES
    metadata,    \* the record handed to flatten_metadata / prepare_chunk_metadata
    fpc,         \* position of the flattening caller: "start", "done", "again"
    returned,    \* what the call returned: <<"ok", dict>>, <<"raise", exc>>, <<"none", <<>>>>
    response,    \* the raw LLM text handed to _clean_response (a sequence of characters)
    pieces,      \* the number of pieces the LLM text was put together from
    cpc,         \* position of the cleaning caller: "start", "done"
    cleaned,     \* the text _clean_response returned
    answer,      \* the fields the LLM has written into its answer
    reply,       \* what llm.invoke did: <<"raise", exc>> or <<"content", text>>
    epc,         \* position of the caller of extract: "start", "invoked", "done"
    result,      \* the ExtractedMetadata that extract returned
    chunks,      \* the chunks handed to _enrich_chunks: a sequence of texts
    extracted_metadata,  \* the ExtractedMetadata handed to _enrich_chunks
    enriched,    \* the list _enrich_chunks builds: <<page_content, metadata>> each
    ppc,         \* position in _enrich_chunks and in process_pdf
    pdf_files,   \* the files process_directory found, in the order of the loop
    position,    \* the number of files process_directory has started
    results,     \* the list of results process_directory builds
    documents,   \* what the loader did for the file in hand: <<"ok", pages>>, <<"raise", exc>>
    extractor_calls,  \* the texts the extractor was called with for the file in hand
    add_calls,   \* the lists handed to vectorstore.add_documents for the file in hand
    counted,     \* <<successful, failed>> of the summary of process_directory
    rows,        \* the rows the Postgres loader returned
    batch_size,  \* config postgres batch_size
    all_vectors, \* the vectors of the batches embedded so far
    embed_calls, \* the number of calls of embedder.embed_documents
    write_calls, \* the arguments of the calls of store.write_all
    table,       \* the rows of the target table
    rpc,         \* position in PostgresIngestionPipeline.run
    run_result   \* what run returned

extractVars == <<answer, reply, epc, result>>
enrichVars == <<chunks, extracted_metadata, enriched, ppc>>
pipelineVars ==
    <<pdf_files, position, results, documents, extractor_calls, add_calls, counted>>
runVars ==
    <<rows, batch_size, all_vectors, embed_calls, write_calls, table, rpc, run_result>>

vars == <<metadata, fpc, returned, response, pieces, cpc, cleaned,
          answer, reply, epc, result, chunks, extracted_metadata, enriched, ppc,
          pdf_files, position, results, documents, extractor_calls, add_calls, counted,
          rows, batch_size, all_vectors, embed_calls, write_calls, table, rpc,
          run_result>>

\* the extractor and the enrichment have not been started
IdleExtract == answer = <<>> /\ reply = <<>> /\ epc = "idle" /\ result = <<>>
IdleEnrich ==
    chunks = <<>> /\ extracted_metadata = <<>> /\ enriched = <<>> /\ ppc = "idle"

\* process_directory and PostgresIngestionPipeline.run have not been started
IdlePipeline ==
    /\ pdf_files = <<>>
    /\ position = 0
    /\ results = <<>>
    /\ documents = <<>>
    /\ extractor_calls = <<>>
    /\ add_calls = <<>>
    /\ counted = <<>>
IdleRun ==
    /\ rows = <<>>
    /\ batch_size = 0
    /\ all_vectors = <<>>
    /\ embed_calls = 0
    /\ write_calls = <<>>
    /\ table = <<>>
    /\ rpc = "idle"
    /\ run_result = <<>>

(***************************************************************************)
(* Python values.  A value is a pair <<type tag, payload>>; a dict is the  *)
(* sequence of its <<key, value>> items in insertion order.                *)
(***************************************************************************)
PyNone == <<"NoneType", 0>>
PyBool(b) == <<"bool", b>>
PyInt(i) == <<"int", i>>
PyFloat(r) == <<"float", r>>          \* payload: the repr of the float
PyStr(s) == <<"str", s>>
PyDateTime(t) == <<"datetime", t>>    \* payload: seconds after midnight
PyObject(o) == <<"object", o>>        \* any other Python object
PyList(elems) == <<"list", elems>>
PyDict(items) == <<"dict", items>>
PyModel(items) == <<"model", items>>  \* a Pydantic model: its fields in order

TypeOf(value) == value[1]
Payload(value) == value[2]

\* bound of the input universe: the number of keyed values in a record
MaxNodes == 3

Keys == {"a", "a_a"}

Scalars ==
    {PyNone, PyBool(TRUE), PyInt(1), PyFloat("1.5"), PyStr("s"), PyDateTime(5),
     PyObject(0)}

\* the sequences a record may hold: empty, of null and a scalar, of a string
\* and a mapping that holds a sequence, and of something json cannot write
Lists ==
    {PyList(<<>>),
     PyList(<<PyNone, PyBool(TRUE)>>),
     PyList(<<PyStr("s"), PyDict(<<<<"k", PyList(<<PyFloat("1.5")>>)>>>>)>>),
     PyList(<<PyDateTime(5)>>)}

ItemKeys(items) == {items[i][1] : i \in 1..Len(items)}

\* what one more keyed value of a record can be: a scalar, a sequence or an
\* empty mapping or model
Leaves == Scalars \cup Lists \cup {PyDict(<<>>), PyModel(<<>>)}

\* the number of keyed values in a record
RECURSIVE NodeCount(_)
NodeCount(items) ==
    IF Len(items) = 0 THEN 0
    ELSE 1 + (IF items[1][2][1] \in {"dict", "model"}
              THEN NodeCount(items[1][2][2]) ELSE 0)
         + NodeCount(Tail(items))

\* the records that have one more keyed value than the given one, added
\* last in document order
RECURSIVE GrowItems(_)
GrowItems(items) ==
    {Append(items, <<key, leaf>>) : key \in Keys \ ItemKeys(items), leaf \in Leaves}
    \cup (IF Len(items) = 0 \/ items[Len(items)][2][1] \notin {"dict", "model"}
          THEN {}
          ELSE {[items EXCEPT ![Len(items)] = <<items[Len(items)][1], <<items[Len(items)][2][1], d>>>>] :
                   d \in GrowItems(items[Len(items)][2][2])})

(***************************************************************************)
(* dict operations                                                         *)
(***************************************************************************)
HasKey(d, key) == \E i \in 1..Len(d) : d[i][1] = key

IndexOfKey(d, key) == CHOOSE i \in 1..Len(d) : d[i][1] = key

DictGet(d, key) == d[IndexOfKey(d, key)][2]

\* mutant: the value of an existing key is kept, as d.setdefault(key, value)
DictSetKeepFirst(d, key, value) ==
    IF HasKey(d, key) THEN d ELSE Append(d, <<key, value>>)

\* d[key] = value: an existing key keeps its position, a new key is appended
DictSet(d, key, value) ==
    IF HasKey(d, key)
    THEN [d EXCEPT ![IndexOfKey(d, key)] = <<key, value>>]
    ELSE Append(d, <<key, value>>)

\* d.update(other)
RECURSIVE DictUpdate(_, _)
DictUpdate(d, other) ==
    IF other = <<>> THEN d
    ELSE DictUpdate(DictSet(d, other[1][1], other[1][2]), Tail(other))

(***************************************************************************)
(* json.dumps, datetime.isoformat, str and BaseModel.model_dump            *)
(***************************************************************************)
\* mutant: a serializer that accepts only lists of plain scalars
JsonSerializableScalarsOnly(value) ==
    /\ TypeOf(value) = "list"
    /\ \A i \in 1..Len(Payload(value)) :
          TypeOf(Payload(value)[i]) \in {"bool", "int", "float", "str"}

\* json.dumps raises TypeError on anything but None, bool, int, float, str,
\* list and dict
RECURSIVE JsonSerializable(_)
JsonSerializable(value) ==
    CASE TypeOf(value) \in {"NoneType", "bool", "int", "float", "str"} -> TRUE
      [] TypeOf(value) = "list" ->
            \A i \in 1..Len(Payload(value)) : JsonSerializable(Payload(value)[i])
      [] TypeOf(value) = "dict" ->
            \A i \in 1..Len(Payload(value)) : JsonSerializable(Payload(value)[i][2])
      [] OTHER -> FALSE

\* the text json.dumps writes (default separators ", " and ": "); string
\* payloads are drawn from characters that need no escaping
RECURSIVE json_dumps(_)
RECURSIVE JsonJoinElems(_, _)
RECURSIVE JsonJoinItems(_, _)
JsonJoinElems(elems, i) ==
    IF i > Len(elems) THEN ""
    ELSE (IF i > 1 THEN ", " ELSE "") \o json_dumps(elems[i])
         \o JsonJoinElems(elems, i + 1)

JsonJoinItems(items, i) ==
    IF i > Len(items) THEN ""
    ELSE (IF i > 1 THEN ", " ELSE "") \o "\"" \o items[i][1] \o "\": "
         \o json_dumps(items[i][2]) \o JsonJoinItems(items, i + 1)

json_dumps(value) ==
    CASE TypeOf(value) = "NoneType" -> "null"
      [] TypeOf(value) = "bool" -> IF Payload(value) THEN "true" ELSE "false"
      [] TypeOf(value) = "int" -> ToString(Payload(value))
      [] TypeOf(value) = "float" -> Payload(value)
      [] TypeOf(value) = "str" -> "\"" \o Payload(value) \o "\""
      [] TypeOf(value) = "list" -> "[" \o JsonJoinElems(Payload(value), 1) \o "]"
      [] TypeOf(value) = "dict" -> "{" \o JsonJoinItems(Payload(value), 1) \o "}"

\* datetime.isoformat()
isoformat(value) ==
    "2025-01-01T00:00:" \o (IF Payload(value) < 10 THEN "0" ELSE "")
    \o ToString(Payload(value))

\* str(value) of the fallback branch
StrOf(value) ==
    CASE TypeOf(value) = "NoneType" -> "None"
      [] TypeOf(value) = "bool" -> IF Payload(value) THEN "True" ELSE "False"
      [] TypeOf(value) = "int" -> ToString(Payload(value))
      [] TypeOf(value) = "float" -> Payload(value)
      [] TypeOf(value) = "str" -> Payload(value)
      [] OTHER -> "<object>"

\* BaseModel.model_dump(): the fields as a dict, nested models dumped too
RECURSIVE DumpValue(_)
DumpValue(value) ==
    CASE TypeOf(value) = "model" ->
            PyDict([i \in 1..Len(Payload(value)) |->
                      <<Payload(value)[i][1], DumpValue(Payload(value)[i][2])>>])
      [] TypeOf(value) = "dict" ->
            PyDict([i \in 1..Len(Payload(value)) |->
                      <<Payload(value)[i][1], DumpValue(Payload(value)[i][2])>>])
      [] TypeOf(value) = "list" ->
            PyList([i \in 1..Len(Payload(value)) |-> DumpValue(Payload(value)[i])])
      [] OTHER -> value

model_dump(value) == Payload(DumpValue(value))

(***************************************************************************)
(* flatten_metadata and prepare_chunk_metadata                             *)
(***************************************************************************)
Ok(d) == <<"ok", d>>
Raise(exc) == <<"raise", exc>>
NotCalled == <<"none", <<>>>>

\* new_key = f"{prefix}{key}" if prefix else key
NewKey(prefix, key) == IF prefix # "" THEN prefix \o key ELSE key

\* mutant: nested keys joined with "." instead of "_"
SubPrefixDot(new_key) == new_key \o "."

\* the prefix handed to the recursive call: f"{new_key}_"
SubPrefix(new_key) == new_key \o "_"

\* mutant: every falsy value is skipped, not None alone
IsFalsy(value) ==
    \/ TypeOf(value) = "NoneType"
    \/ TypeOf(value) = "bool" /\ ~Payload(value)
    \/ TypeOf(value) = "int" /\ Payload(value) = 0

IsNone(value) == TypeOf(value) = "NoneType"
IsEmptyDict(value) == TypeOf(value) = "dict" /\ Len(Payload(value)) = 0
IsDict(value) == TypeOf(value) = "dict"
\* mutant: the empty-list check is missing
IsEmptyListNever(value) == FALSE

IsEmptyList(value) == TypeOf(value) = "list" /\ Len(Payload(value)) = 0
IsList(value) == TypeOf(value) = "list"
IsDateTime(value) == TypeOf(value) = "datetime"
HasModelDump(value) == TypeOf(value) = "model"
\* mutant: float left out of the primitive check
IsPrimitiveNoFloat(value) == TypeOf(value) \in {"str", "int", "bool"}

IsPrimitive(value) == TypeOf(value) \in {"str", "int", "float", "bool"}

\* mutant: the list is stored as it is
ListEntryRaw(value) == value

\* mutant: str(value) instead of json.dumps(value)
ListEntryStr(value) == PyStr(StrOf(value))

\* flattened[new_key] = json.dumps(value)
ListEntry(value) == PyStr(json_dumps(value))

\* flattened[new_key] = value.isoformat()
DateTimeEntry(value) == PyStr(isoformat(value))

\* mutant: a boolean is taken for the integer it equals
PrimitiveEntryAsInt(value) ==
    IF TypeOf(value) = "bool" THEN PyInt(IF Payload(value) THEN 1 ELSE 0) ELSE value

\* flattened[new_key] = value
PrimitiveEntry(value) == value

\* mutant: the object itself is stored
FallbackEntryRaw(value) == value

\* flattened[new_key] = str(value)
FallbackEntry(value) == PyStr(StrOf(value))

RECURSIVE flatten_metadata(_, _)
RECURSIVE FlattenLoop(_, _, _, _)
\* the for loop of flatten_metadata from item i on, flattened being the
\* dict built so far
FlattenLoop(items, i, prefix, flattened) ==
    IF i > Len(items) THEN Ok(flattened)
    ELSE
      LET key == items[i][1]
          value == items[i][2]
          new_key == NewKey(prefix, key)
          continue(d) == FlattenLoop(items, i + 1, prefix, d)
          merge(sub) == IF sub[1] = "raise" THEN sub
                        ELSE continue(DictUpdate(flattened, sub[2]))
      IN  IF IsNone(value) THEN continue(flattened)
          ELSE IF IsEmptyDict(value) THEN continue(flattened)
          ELSE IF IsDict(value)
            THEN merge(flatten_metadata(Payload(value), SubPrefix(new_key)))
          ELSE IF IsEmptyList(value) THEN continue(flattened)
          ELSE IF IsList(value)
            THEN IF JsonSerializable(value)
                 THEN continue(DictSet(flattened, new_key, ListEntry(value)))
                 ELSE Raise("TypeError")
          ELSE IF IsDateTime(value)
            THEN continue(DictSet(flattened, new_key, DateTimeEntry(value)))
          ELSE IF HasModelDump(value)
            THEN merge(flatten_metadata(model_dump(value), SubPrefix(new_key)))
          ELSE IF IsPrimitive(value)
            THEN continue(DictSet(flattened, new_key, PrimitiveEntry(value)))
          ELSE continue(DictSet(flattened, new_key, FallbackEntry(value)))

flatten_metadata(items, prefix) == FlattenLoop(items, 1, prefix, <<>>)

\* prepare_chunk_metadata(chunk_metadata): model_dump(), then flatten
prepare_chunk_metadata(chunk_metadata) ==
    flatten_metadata(model_dump(chunk_metadata), "")

(***************************************************************************)
(* The callers of the flattener.                                           *)
(***************************************************************************)
InitFlatten ==
    /\ metadata = <<>>
    /\ fpc = "start"
    /\ returned = NotCalled
    /\ response = <<>>
    /\ pieces = 0
    /\ cpc = "idle"
    /\ cleaned = <<>>
    /\ IdleExtract
    /\ IdleEnrich
    /\ IdlePipeline
    /\ IdleRun

\* the caller puts one more value into the record it will hand over
BuildRecord ==
    /\ fpc = "start"
    /\ NodeCount(metadata) < MaxNodes
    /\ metadata' \in GrowItems(metadata)
    /\ UNCHANGED <<fpc, returned, response, pieces, cpc, cleaned>>
    /\ UNCHANGED <<extractVars, enrichVars, pipelineVars, runVars>>

\* returned = flatten_metadata(metadata)
CallFlatten ==
    /\ fpc = "start"
    /\ returned' = flatten_metadata(metadata, "")
    /\ fpc' = "done"
    /\ UNCHANGED <<metadata, response, pieces, cpc, cleaned>>
    /\ UNCHANGED <<extractVars, enrichVars, pipelineVars, runVars>>

\* returned = prepare_chunk_metadata(model): metadata holds the model's fields
CallPrepare ==
    /\ fpc = "start"
    /\ returned' = prepare_chunk_metadata(PyModel(metadata))
    /\ fpc' = "prepared"
    /\ UNCHANGED <<metadata, response, pieces, cpc, cleaned>>
    /\ UNCHANGED <<extractVars, enrichVars, pipelineVars, runVars>>

\* the returned mapping is returned once more
CallFlattenAgain ==
    /\ fpc \in {"done", "prepared"}
    /\ returned[1] = "ok"
    /\ metadata' = returned[2]
    /\ returned' = flatten_metadata(returned[2], "")
    /\ fpc' = "again"
    /\ UNCHANGED <<response, pieces, cpc, cleaned>>
    /\ UNCHANGED <<extractVars, enrichVars, pipelineVars, runVars>>

NextFlatten == BuildRecord \/ CallFlatten \/ CallPrepare \/ CallFlattenAgain

SpecFlatten == InitFlatten /\ [][NextFlatten]_vars

(***************************************************************************)
(* LLMMetadataExtractor._clean_response.  A text is the sequence of its    *)
(* characters, each a string.                                              *)
(***************************************************************************)
\* the backquote character, written by its name
Backquote == "backquote"

Fence == <<Backquote, Backquote, Backquote>>
JsonTag == <<"j", "s", "o", "n">>
QuotedNull == <<"\"", "n", "u", "l", "l", "\"">>
ColonNull == <<":", " ", "n", "u", "l", "l">>

\* what \s matches and str.strip() removes
IsSpace(c) == c \in {" ", "\n", "\t", "\r"}

\* text[i:].startswith(pat), i counted from 1
StartsAt(text, i, pat) ==
    /\ i >= 1
    /\ i + Len(pat) - 1 <= Len(text)
    /\ SubSeq(text, i, i + Len(pat) - 1) = pat

\* pat in text
Contains(text, pat) == \E i \in 1..Len(text) : StartsAt(text, i, pat)

\* the length of the run of whitespace that starts at i
RECURSIVE SpaceRun(_, _)
SpaceRun(text, i) ==
    IF i <= Len(text) /\ IsSpace(text[i]) THEN 1 + SpaceRun(text, i + 1) ELSE 0

\* str.strip()
RECURSIVE lstrip(_)
lstrip(text) ==
    IF Len(text) > 0 /\ IsSpace(text[1]) THEN lstrip(Tail(text)) ELSE text

RECURSIVE rstrip(_)
rstrip(text) ==
    IF Len(text) > 0 /\ IsSpace(text[Len(text)])
    THEN rstrip(SubSeq(text, 1, Len(text) - 1)) ELSE text

strip(text) == rstrip(lstrip(text))

\* the tail \s* fence of the pattern matches at q
ClosesAt(text, q) ==
    \E m \in 0..SpaceRun(text, q) : StartsAt(text, q + m, Fence)

\* mutant: (.*) instead of (.*?): the longest group first
RECURSIVE GroupEndGreedy(_, _)
GroupEndGreedy(text, q) ==
    IF q > Len(text) + 1 THEN 0
    ELSE LET later == GroupEndGreedy(text, q + 1)
         IN  IF later # 0 THEN later ELSE IF ClosesAt(text, q) THEN q ELSE 0

\* (.*?) with re.DOTALL: the group ends at the first q, from q on, where the
\* rest of the pattern matches; 0 when there is none
RECURSIVE GroupEnd(_, _)
GroupEnd(text, q) ==
    IF q > Len(text) + 1 THEN 0
    ELSE IF ClosesAt(text, q) THEN q
    ELSE GroupEnd(text, q + 1)

\* \s* before the group, greedy: k whitespace characters from b, then fewer.
\* The match found is <<start of the group, end of the group>>, <<>> if none.
RECURSIVE MatchSpaces(_, _, _)
MatchSpaces(text, b, k) ==
    IF k < 0 THEN <<>>
    ELSE LET q == GroupEnd(text, b + k)
         IN  IF q # 0 THEN <<b + k, q>> ELSE MatchSpaces(text, b, k - 1)

\* fence (?:json)?\s*(.*?)\s* fence, tried at i: the tag is taken when it is there,
\* and given up if no match follows
MatchAt(text, i) ==
    IF ~StartsAt(text, i, Fence) THEN <<>>
    ELSE LET tagged == IF StartsAt(text, i + 3, JsonTag)
                       THEN MatchSpaces(text, i + 7, SpaceRun(text, i + 7))
                       ELSE <<>>
         IN  IF tagged # <<>> THEN tagged
             ELSE MatchSpaces(text, i + 3, SpaceRun(text, i + 3))

\* re.search(pattern, response, re.DOTALL): the leftmost match
RECURSIVE re_search(_, _)
re_search(text, i) ==
    IF i > Len(text) THEN <<>>
    ELSE LET match == MatchAt(text, i)
         IN  IF match # <<>> THEN match ELSE re_search(text, i + 1)

\* mutant: without a closing fence, what follows the opening fence is kept
FenceStepCutOpen(text) ==
    IF Contains(text, Fence)
    THEN LET match == re_search(text, 1)
             open == CHOOSE i \in 1..Len(text) :
                        /\ StartsAt(text, i, Fence)
                        /\ \A j \in 1..(i - 1) : ~StartsAt(text, j, Fence)
         IN  IF match # <<>> THEN strip(SubSeq(text, match[1], match[2] - 1))
             ELSE strip(SubSeq(text, open + 3, Len(text)))
    ELSE text

\* "Remove markdown code blocks": match.group(1).strip() if the pattern
\* matches, else the text as it is
FenceStep(text) ==
    IF Contains(text, Fence)
    THEN LET match == re_search(text, 1)
         IN  IF match # <<>> THEN strip(SubSeq(text, match[1], match[2] - 1))
             ELSE text
    ELSE text

\* str.find(c) and str.rfind(c): index counted from 0, -1 when absent
find(text, c) ==
    IF \E i \in 1..Len(text) : text[i] = c
    THEN (CHOOSE i \in 1..Len(text) :
             text[i] = c /\ \A j \in 1..(i - 1) : text[j] # c) - 1
    ELSE -1

rfind(text, c) ==
    IF \E i \in 1..Len(text) : text[i] = c
    THEN (CHOOSE i \in 1..Len(text) :
             text[i] = c /\ \A j \in (i + 1)..Len(text) : text[j] # c) - 1
    ELSE -1

\* mutant: the span without its two braces, response[start+1:end]
BraceStepInside(text) ==
    LET start == find(text, "{")
        end == rfind(text, "}")
    IN  IF start # -1 /\ end # -1 /\ end > start
        THEN SubSeq(text, start + 2, end)
        ELSE text

\* mutant: the span ends at the first "}" instead of the last
BraceStepFirstClose(text) ==
    LET start == find(text, "{")
        end == find(text, "}")
    IN  IF start # -1 /\ end # -1 /\ end > start
        THEN SubSeq(text, start + 1, end + 1)
        ELSE text

\* "Find first { and last }": response[start:end+1]
BraceStep(text) ==
    LET start == find(text, "{")
        end == rfind(text, "}")
    IN  IF start # -1 /\ end # -1 /\ end > start
        THEN SubSeq(text, start + 1, end + 1)
        ELSE text

\* mutant: the pattern without its closing quote, :\s*"null
RECURSIVE re_sub_null_open(_, _)
re_sub_null_open(text, i) ==
    IF i > Len(text) THEN <<>>
    ELSE IF text[i] # ":" THEN <<text[i]>> \o re_sub_null_open(text, i + 1)
    ELSE LET quote == i + 1 + SpaceRun(text, i + 1)
         IN  IF StartsAt(text, quote, <<"\"", "n", "u", "l", "l">>)
             THEN ColonNull \o re_sub_null_open(text, quote + 5)
             ELSE <<text[i]>> \o re_sub_null_open(text, i + 1)

\* re.sub of the pattern :\s*"null" by : null, from character i on
RECURSIVE re_sub_null(_, _)
re_sub_null(text, i) ==
    IF i > Len(text) THEN <<>>
    ELSE IF text[i] # ":" THEN <<text[i]>> \o re_sub_null(text, i + 1)
    ELSE LET quote == i + 1 + SpaceRun(text, i + 1)
         IN  IF StartsAt(text, quote, QuotedNull)
             THEN ColonNull \o re_sub_null(text, quote + 6)
             ELSE <<text[i]>> \o re_sub_null(text, i + 1)

NullStep(text) == re_sub_null(text, 1)

_clean_response(raw) == NullStep(BraceStep(FenceStep(strip(raw))))

(***************************************************************************)
(* The caller of the cleaner: the text of the LLM, piece by piece, and     *)
(* then the call.                                                          *)
(***************************************************************************)
MaxPieces == 5

\* what the LLM text is made of: fences with and without the json tag,
\* whitespace, braces, other text, a colon and the string "null"
Pieces ==
    {Fence, Fence \o JsonTag, <<"\n">>, <<"{">>, <<"}">>, <<"x">>, <<":">>, QuotedNull}

InitClean ==
    /\ response = <<>>
    /\ pieces = 0
    /\ cpc = "start"
    /\ cleaned = <<>>
    /\ metadata = <<>>
    /\ fpc = "idle"
    /\ returned = NotCalled
    /\ IdleExtract
    /\ IdleEnrich
    /\ IdlePipeline
    /\ IdleRun

\* the LLM writes one more piece of its answer
Generate ==
    /\ cpc = "start"
    /\ pieces < MaxPieces
    /\ \E piece \in Pieces : response' = response \o piece
    /\ pieces' = pieces + 1
    /\ UNCHANGED <<cpc, cleaned, metadata, fpc, returned>>
    /\ UNCHANGED <<extractVars, enrichVars, pipelineVars, runVars>>

\* cleaned_content = self._clean_response(content)
CallClean ==
    /\ cpc = "start"
    /\ cleaned' = _clean_response(response)
    /\ cpc' = "done"
    /\ UNCHANGED <<response, pieces, metadata, fpc, returned>>
    /\ UNCHANGED <<extractVars, enrichVars, pipelineVars, runVars>>

NextClean == Generate \/ CallClean

SpecClean == InitClean /\ [][NextClean]_vars

\* what an LLM text with field values is made of: a colon, whitespace, the
\* string "null", a string that only starts with null, other text, a quote
\* and braces
OpenNull == <<"\"", "n", "u", "l", "l">>

FieldPieces ==
    {<<":">>, <<"\n">>, QuotedNull, OpenNull, <<"x">>, <<"\"">>, <<"{">>, <<"}">>}

\* the LLM writes one more piece of an answer with field values
GenerateField ==
    /\ cpc = "start"
    /\ pieces < MaxPieces
    /\ \E piece \in FieldPieces : response' = response \o piece
    /\ pieces' = pieces + 1
    /\ UNCHANGED <<cpc, cleaned, metadata, fpc, returned>>
    /\ UNCHANGED <<extractVars, enrichVars, pipelineVars, runVars>>

NextField == GenerateField \/ CallClean

SpecField == InitClean /\ [][NextField]_vars

(***************************************************************************)
(* json.loads on a text.  In the texts of the extractor a JSON string      *)
(* literal other than "null", and a JSON number, is one symbol of the      *)
(* text: it holds no brace, colon or backquote, so the cleaner treats it   *)
(* as it treats any other character.                                       *)
(***************************************************************************)
FieldNames ==
    <<"related_service_id", "related_resource_id", "mentioned_services",
      "mentioned_organizations", "mentioned_locations", "service_type", "city",
      "neighborhood", "contact", "location", "service_details", "topic",
      "content_category", "publication_date", "publisher">>

StringLiterals ==
    {FieldNames[k] : k \in 1..Len(FieldNames)} \cup
    {"food", "sports", "SF", "abc", "Soup Kitchen", "phone", "foo"}

NumberLiterals == {7, 12}

\* the symbol of a string literal and of a number
Quoted(str) == "\"" \o str \o "\""
Digits(n) == ToString(n)

IsStringSymbol(c) == \E str \in StringLiterals : c = Quoted(str)
StringOf(c) == CHOOSE str \in StringLiterals : c = Quoted(str)
IsNumberSymbol(c) == \E n \in NumberLiterals : c = Digits(n)
NumberOf(c) == CHOOSE n \in NumberLiterals : c = Digits(n)

NullLiteral == <<"n", "u", "l", "l">>

SkipSpace(text, i) == i + SpaceRun(text, i)

\* a decoding step gives <<"ok", value, next position>> or <<"err">>
Got(value, next) == <<"ok", value, next>>
Err == <<"err">>

\* a string: the literal "null", written in characters, or a string symbol
ParseString(text, i) ==
    IF StartsAt(text, i, QuotedNull) THEN Got(PyStr("null"), i + 6)
    ELSE IF i <= Len(text) /\ IsStringSymbol(text[i])
    THEN Got(PyStr(StringOf(text[i])), i + 1)
    ELSE Err

RECURSIVE ParseValue(_, _)
RECURSIVE ParseMembers(_, _, _)
RECURSIVE ParseElements(_, _, _)

\* a value, after whitespace
ParseValue(text, from) ==
    LET i == SkipSpace(text, from)
    IN  IF i > Len(text) THEN Err
        ELSE IF text[i] = "{"
        THEN LET j == SkipSpace(text, i + 1)
             IN  IF j <= Len(text) /\ text[j] = "}" THEN Got(PyDict(<<>>), j + 1)
                 ELSE ParseMembers(text, j, <<>>)
        ELSE IF text[i] = "["
        THEN LET j == SkipSpace(text, i + 1)
             IN  IF j <= Len(text) /\ text[j] = "]" THEN Got(PyList(<<>>), j + 1)
                 ELSE ParseElements(text, j, <<>>)
        ELSE IF StartsAt(text, i, NullLiteral) THEN Got(PyNone, i + 4)
        ELSE IF i <= Len(text) /\ IsNumberSymbol(text[i])
        THEN Got(PyInt(NumberOf(text[i])), i + 1)
        ELSE ParseString(text, i)

\* the members of an object from the key at i on; a key given twice keeps
\* its last value
ParseMembers(text, i, items) ==
    LET key == ParseString(text, i)
    IN  IF key = Err THEN Err
        ELSE LET colon == SkipSpace(text, key[3])
             IN  IF ~(colon <= Len(text) /\ text[colon] = ":") THEN Err
                 ELSE LET value == ParseValue(text, colon + 1)
                      IN  IF value = Err THEN Err
                          ELSE LET after == SkipSpace(text, value[3])
                                   more == DictSet(items, Payload(key[2]), value[2])
                               IN  IF after > Len(text) THEN Err
                                   ELSE IF text[after] = "}"
                                   THEN Got(PyDict(more), after + 1)
                                   ELSE IF text[after] = ","
                                   THEN ParseMembers(text, SkipSpace(text, after + 1), more)
                                   ELSE Err

\* the elements of an array from the value at i on
ParseElements(text, i, elems) ==
    LET value == ParseValue(text, i)
    IN  IF value = Err THEN Err
        ELSE LET after == SkipSpace(text, value[3])
                 more == Append(elems, value[2])
             IN  IF after > Len(text) THEN Err
                 ELSE IF text[after] = "]" THEN Got(PyList(more), after + 1)
                 ELSE IF text[after] = "," THEN ParseElements(text, after + 1, more)
                 ELSE Err

\* json.loads(text): one value and nothing but whitespace after it
json_loads(text) ==
    LET value == ParseValue(text, 1)
    IN  IF value # Err /\ SkipSpace(text, value[3]) = Len(text) + 1
        THEN Ok(value[2])
        ELSE Raise("JSONDecodeError")

(***************************************************************************)
(* The models of schema.py and their validation, as parser.parse does it   *)
(* for ExtractedMetadata: every field is Optional with default None, keys  *)
(* that are no field are ignored, one field that fails fails the model.    *)
(***************************************************************************)
ContactInfoFields ==
    <<<<"phone", "str">>, <<"email", "str">>, <<"website", "str">>>>

LocationFields ==
    <<<<"address", "str">>, <<"city", "str">>, <<"state", "str">>, <<"zip", "str">>,
      <<"coordinates", "dict_float">>, <<"neighborhood", "str">>>>

ServiceDetailsFields ==
    <<<<"hours", "dict">>, <<"capacity", "str">>, <<"eligibility", "str">>,
      <<"cost", "str">>, <<"languages", "list_str">>, <<"accessibility", "str">>>>

ExtractedMetadataFields ==
    <<<<"related_service_id", "int">>, <<"related_resource_id", "int">>,
      <<"mentioned_services", "list_str">>, <<"mentioned_organizations", "list_str">>,
      <<"mentioned_locations", "list_str">>, <<"service_type", "str">>,
      <<"city", "str">>, <<"neighborhood", "str">>, <<"contact", "ContactInfo">>,
      <<"location", "Location">>, <<"service_details", "ServiceDetails">>,
      <<"topic", "str">>, <<"content_category", "str">>,
      <<"publication_date", "str">>, <<"publisher", "str">>>>

IsModelType(type) == type \in {"ContactInfo", "Location", "ServiceDetails"}

FieldsOf(type) ==
    CASE type = "ContactInfo" -> ContactInfoFields
      [] type = "Location" -> LocationFields
      [] type = "ServiceDetails" -> ServiceDetailsFields
      [] OTHER -> ExtractedMetadataFields

\* ExtractedMetadata(): every field None
ExtractedMetadataDefault ==
    PyModel([k \in 1..Len(ExtractedMetadataFields) |->
                <<ExtractedMetadataFields[k][1], PyNone>>])

RECURSIVE ValidateValue(_, _)
RECURSIVE ValidateFields(_, _, _, _)

\* the value of a field declared Optional[type]; no string literal of the
\* texts is a numeral, so no string is taken for an int
ValidateValue(value, type) ==
    IF IsNone(value) THEN Ok(PyNone)
    ELSE IF type = "int"
    THEN IF TypeOf(value) = "int" THEN Ok(value) ELSE Raise("ValidationError")
    ELSE IF type = "str"
    THEN IF TypeOf(value) = "str" THEN Ok(value) ELSE Raise("ValidationError")
    ELSE IF type = "list_str"
    THEN IF IsList(value) /\ \A k \in 1..Len(Payload(value)) :
                                TypeOf(Payload(value)[k]) = "str"
         THEN Ok(value) ELSE Raise("ValidationError")
    ELSE IF type = "dict"
    THEN IF IsDict(value) THEN Ok(value) ELSE Raise("ValidationError")
    ELSE IF type = "dict_float"
    THEN IF IsDict(value) /\ \A k \in 1..Len(Payload(value)) :
                                TypeOf(Payload(value)[k][2]) \in {"int", "float"}
         THEN Ok(value) ELSE Raise("ValidationError")
    ELSE IF IsDict(value) THEN ValidateFields(Payload(value), FieldsOf(type), 1, <<>>)
    ELSE Raise("ValidationError")

\* the fields of a model from the k-th on, read from the items of a dict
ValidateFields(items, fields, k, done) ==
    IF k > Len(fields) THEN Ok(PyModel(done))
    ELSE LET name == fields[k][1]
             field == IF HasKey(items, name)
                      THEN ValidateValue(DictGet(items, name), fields[k][2])
                      ELSE Ok(PyNone)
         IN  IF field[1] = "raise" THEN field
             ELSE ValidateFields(items, fields, k + 1, Append(done, <<name, field[2]>>))

\* ExtractedMetadata.model_validate(obj)
model_validate(obj) ==
    IF IsDict(obj) THEN ValidateFields(Payload(obj), ExtractedMetadataFields, 1, <<>>)
    ELSE Raise("ValidationError")

\* self.parser.parse(text): decode, then validate
parse(text) ==
    LET decoded == json_loads(text)
    IN  IF decoded[1] = "raise" THEN Raise("OutputParserException")
        ELSE IF model_validate(decoded[2])[1] = "raise"
        THEN Raise("OutputParserException")
        ELSE model_validate(decoded[2])

(***************************************************************************)
(* LLMMetadataExtractor.extract.  What llm.invoke did is <<"raise", exc>>  *)
(* or <<"content", content>>, the content a text, <<"str", text>>, or a    *)
(* list of content blocks, <<"list", blocks>>.                             *)
(***************************************************************************)
Raised(exc) == <<"raise", exc>>
Content(content) == <<"content", content>>

\* the body of the try block
TryExtract(invoked) ==
    IF invoked[1] = "raise" THEN Raise(invoked[2])
    ELSE LET content == invoked[2]
         IN  IF content[1] # "str" THEN Raise("AttributeError")
             ELSE LET cleaned_content == _clean_response(content[2])
                  IN  IF json_loads(cleaned_content)[1] = "raise"
                      THEN Raise("JSONDecodeError")
                      ELSE parse(cleaned_content)

\* mutant: except json.JSONDecodeError instead of except Exception
CaughtJsonOnly(exc) == exc = "JSONDecodeError"

\* except Exception: every exception the try block raises is one
Caught(exc) == TRUE

extract(invoked) ==
    LET outcome == TryExtract(invoked)
    IN  IF outcome[1] = "raise" /\ Caught(outcome[2])
        THEN Ok(ExtractedMetadataDefault)
        ELSE outcome

(***************************************************************************)
(* The caller of extract: the LLM writes the fields of its answer, the     *)
(* invocation fails or gives the answer in one of its wrappings, and       *)
(* extract is called on it.                                                *)
(***************************************************************************)
MaxFields == 3

IdleFlatten == metadata = <<>> /\ fpc = "idle" /\ returned = NotCalled
IdleClean == response = <<>> /\ pieces = 0 /\ cpc = "idle" /\ cleaned = <<>>

\* "name": value
Field(name, value) == <<Quoted(name), ":", " ">> \o value

\* the fields an answer is made of: well typed ones, a service_type outside
\* the categories of the prompt, values of the wrong type, a quoted "null",
\* an identity link, a detail record, a mention and a key that is no field
AnswerFields ==
    {Field("service_type", <<Quoted("food")>>),
     Field("service_type", <<Quoted("sports")>>),
     Field("service_type", <<"[", Quoted("food"), "]">>),
     Field("city", QuotedNull),
     Field("city", <<Quoted("SF")>>),
     Field("related_service_id", <<Digits(12)>>),
     Field("related_service_id", <<Quoted("abc")>>),
     Field("contact", <<"{", Quoted("phone"), ":", Quoted("abc"), "}">>),
     Field("mentioned_services", <<"[", Quoted("Soup Kitchen"), "]">>),
     Field("foo", <<Digits(7)>>)}

\* the fields, with commas between them
RECURSIVE Members(_)
Members(fields) ==
    IF fields = <<>> THEN <<>>
    ELSE IF Len(fields) = 1 THEN fields[1]
    ELSE fields[1] \o <<",", "\n">> \o Members(Tail(fields))

Object(fields) == <<"{">> \o Members(fields) \o <<"}">>

\* what llm.invoke can do with an answer of these fields: fail, or give the
\* object alone, in a fenced block, between commentary, cut short, no object
\* at all, or a list of content blocks
Invocations(fields) ==
    {Raised("ConnectionError"),
     Content(<<"str", Object(fields)>>),
     Content(<<"str", Fence \o JsonTag \o <<"\n">> \o Object(fields) \o <<"\n">> \o Fence>>),
     Content(<<"str", <<"x", " ">> \o Object(fields) \o <<" ", "x">>>>),
     Content(<<"str", <<"{">> \o Members(fields)>>),
     Content(<<"str", <<"x">>>>),
     Content(<<"list", <<Object(fields)>>>>)}

InitExtract ==
    /\ answer = <<>>
    /\ reply = <<>>
    /\ epc = "start"
    /\ result = <<>>
    /\ IdleFlatten
    /\ IdleClean
    /\ IdleEnrich
    /\ IdlePipeline
    /\ IdleRun

\* the LLM writes one more field
WriteField ==
    /\ epc = "start"
    /\ Len(answer) < MaxFields
    /\ \E field \in AnswerFields : answer' = Append(answer, field)
    /\ UNCHANGED <<reply, epc, result>>
    /\ UNCHANGED <<metadata, fpc, returned, response, pieces, cpc, cleaned, enrichVars, pipelineVars, runVars>>

\* result = self.llm.invoke(...)
Invoke ==
    /\ epc = "start"
    /\ reply' \in Invocations(answer)
    /\ epc' = "invoked"
    /\ UNCHANGED <<answer, result>>
    /\ UNCHANGED <<metadata, fpc, returned, response, pieces, cpc, cleaned, enrichVars, pipelineVars, runVars>>

\* extract(text), from the invocation on
CallExtract ==
    /\ epc = "invoked"
    /\ result' = extract(reply)
    /\ epc' = "done"
    /\ UNCHANGED <<answer, reply>>
    /\ UNCHANGED <<metadata, fpc, returned, response, pieces, cpc, cleaned, enrichVars, pipelineVars, runVars>>

NextExtract == WriteField \/ Invoke \/ CallExtract

SpecExtract == InitExtract /\ [][NextExtract]_vars

(***************************************************************************)
(* IngestionPipeline._infer_document_type and the word count of a chunk.   *)
(***************************************************************************)
UpperCase ==
    <<"A", "B", "C", "D", "E", "F", "G", "H", "I", "J", "K", "L", "M", "N", "O",
      "P", "Q", "R", "S", "T", "U", "V", "W", "X", "Y", "Z">>

LowerCase ==
    <<"a", "b", "c", "d", "e", "f", "g", "h", "i", "j", "k", "l", "m", "n", "o",
      "p", "q", "r", "s", "t", "u", "v", "w", "x", "y", "z">>

\* str.lower(), character by character
LowerOf ==
    [c \in {UpperCase[k] : k \in 1..Len(UpperCase)} |->
        LowerCase[CHOOSE k \in 1..Len(UpperCase) : UpperCase[k] = c]]

LowerChar(c) == IF c \in DOMAIN LowerOf THEN LowerOf[c] ELSE c

lower(text) == [k \in 1..Len(text) |-> LowerChar(text[k])]

\* the trigger words of the four buckets, in the order of the if chain
BrochureWords == <<<<"b", "r", "o", "c", "h", "u", "r", "e">>,
                   <<"s", "e", "r", "v", "i", "c", "e", "s", " ", "o", "f", "f", "e", "r", "e", "d">>>>
GuideWords == <<<<"g", "u", "i", "d", "e">>,
                <<"h", "o", "w", " ", "t", "o">>,
                <<"s", "t", "e", "p", " ", "b", "y", " ", "s", "t", "e", "p">>>>
PolicyWords == <<<<"p", "o", "l", "i", "c", "y">>,
                 <<"r", "e", "g", "u", "l", "a", "t", "i", "o", "n">>,
                 <<"l", "a", "w">>>>
FlyerWords == <<<<"f", "l", "y", "e", "r">>,
                <<"a", "n", "n", "o", "u", "n", "c", "e", "m", "e", "n", "t">>>>

\* any(word in text_lower for word in words)
AnyIn(words, text_lower) ==
    \E k \in 1..Len(words) : Contains(text_lower, words[k])

\* mutant: policy is looked for before guide
InferPolicyFirst(text) ==
    LET text_lower == lower(text)
    IN  IF AnyIn(BrochureWords, text_lower) THEN "brochure"
        ELSE IF AnyIn(PolicyWords, text_lower) THEN "policy"
        ELSE IF AnyIn(GuideWords, text_lower) THEN "guide"
        ELSE IF AnyIn(FlyerWords, text_lower) THEN "flyer"
        ELSE "unknown"

_infer_document_type(text) ==
    LET text_lower == lower(text)
    IN  IF AnyIn(BrochureWords, text_lower) THEN "brochure"
        ELSE IF AnyIn(GuideWords, text_lower) THEN "guide"
        ELSE IF AnyIn(PolicyWords, text_lower) THEN "policy"
        ELSE IF AnyIn(FlyerWords, text_lower) THEN "flyer"
        ELSE "unknown"

\* the first word of a text that starts with none of whitespace
RECURSIVE FirstWord(_)
FirstWord(text) ==
    IF text = <<>> \/ IsSpace(text[1]) THEN <<>>
    ELSE <<text[1]>> \o FirstWord(Tail(text))

\* mutant: str.split(" "), which gives an empty word between two separators
RECURSIVE split_on_each(_)
split_on_each(text) ==
    LET word == FirstWord(text)
    IN  IF Len(word) = Len(text) THEN <<word>>
        ELSE <<word>> \o split_on_each(SubSeq(text, Len(word) + 2, Len(text)))

\* str.split(): the words between runs of whitespace
RECURSIVE split(_)
split(text) ==
    LET rest == lstrip(text)
    IN  IF rest = <<>> THEN <<>>
        ELSE <<FirstWord(rest)>> \o
             split(SubSeq(rest, Len(FirstWord(rest)) + 1, Len(rest)))

(***************************************************************************)
(* IngestionPipeline._enrich_chunks.  A chunk is <<words, metadata>>: the  *)
(* words and separators its page_content is written with, and the         *)
(* metadata dict of the loader.                                            *)
(***************************************************************************)
RECURSIVE Concat(_)
Concat(words) == IF words = <<>> THEN <<>> ELSE words[1] \o Concat(Tail(words))

page_content(chunk) == Concat(chunk[1])

\* chunk.metadata.get(key)
MetadataGet(chunk, key) ==
    IF HasKey(chunk[2], key) THEN DictGet(chunk[2], key) ELSE PyNone

\* mutant: enumerate(chunks, 1)
EnumerateFromOne(k) == k

\* the i that enumerate(chunks) gives with the k-th chunk
Enumerate(k) == k - 1

\* mutant: the pipeline version carries the time of the run
ChunkMetadataTimedVersion(chunk, i, extracted, source_filename, now) ==
    PyModel(<<<<"source_filename", PyStr(source_filename)>>,
              <<"source_url", MetadataGet(chunk, "source_url")>>,
              <<"page_number", MetadataGet(chunk, "page")>>,
              <<"extracted_date", PyDateTime(now)>>,
              <<"pipeline_version", PyStr("1.0.0+" \o ToString(now))>>,
              <<"document_type", PyStr(_infer_document_type(page_content(chunk)))>>,
              <<"source_type", PyStr("service_info")>>,
              <<"extracted", extracted>>,
              <<"chunk_index", PyInt(i)>>,
              <<"token_count", PyInt(Len(split(page_content(chunk))))>>,
              <<"keywords", PyNone>>,
              <<"language", PyStr("en")>>,
              <<"needs_review", PyBool(FALSE)>>>>)

\* ChunkMetadata(...), the fields in the order of their declaration, those
\* not given with their defaults; now is what datetime.now() gives
ChunkMetadata(chunk, i, extracted, source_filename, now) ==
    PyModel(<<<<"source_filename", PyStr(source_filename)>>,
              <<"source_url", MetadataGet(chunk, "source_url")>>,
              <<"page_number", MetadataGet(chunk, "page")>>,
              <<"extracted_date", PyDateTime(now)>>,
              <<"pipeline_version", PyStr("1.0.0")>>,
              <<"document_type", PyStr(_infer_document_type(page_content(chunk)))>>,
              <<"source_type", PyStr("service_info")>>,
              <<"extracted", extracted>>,
              <<"chunk_index", PyInt(i)>>,
              <<"token_count", PyInt(Len(split(page_content(chunk))))>>,
              <<"keywords", PyNone>>,
              <<"language", PyStr("en")>>,
              <<"needs_review", PyBool(FALSE)>>>>)

\* the loop from the k-th chunk on; a Document is <<page_content, metadata>>
RECURSIVE EnrichLoop(_, _, _, _, _, _)
EnrichLoop(docs, extracted, source_filename, clock, k, done) ==
    IF k > Len(docs) THEN Ok(done)
    ELSE LET chunk_metadata ==
                 ChunkMetadata(docs[k], Enumerate(k), extracted, source_filename, clock[k])
             chromadb_metadata == prepare_chunk_metadata(chunk_metadata)
         IN  IF chromadb_metadata[1] = "raise" THEN chromadb_metadata
             ELSE EnrichLoop(docs, extracted, source_filename, clock, k + 1,
                             Append(done, <<page_content(docs[k]), chromadb_metadata[2]>>))

_enrich_chunks(docs, extracted, source_filename, clock) ==
    EnrichLoop(docs, extracted, source_filename, clock, 1, <<>>)

(***************************************************************************)
(* The callers of _enrich_chunks: the splitter gives the chunks of a       *)
(* document, or writes the text of one chunk word by word, and the chunks  *)
(* are enriched with the metadata the extractor gave.                      *)
(***************************************************************************)
MaxChunks == 3
MaxWords == 4

Times == {5, 6}

\* what the clock shows at each of n calls, never going back
Clocks(n) ==
    {clock \in [1..n -> Times] : \A k \in 1..(n - 1) : clock[k] <= clock[k + 1]}

\* ExtractedMetadata with one more field set
WithField(model, name, value) == PyModel(DictSet(Payload(model), name, value))

Mentions == PyList(<<PyStr("Soup Kitchen")>>)

\* what extract can have returned: nothing found, mentions only, an identity
\* link only, both, and a category with a detail record
ExtractionResults ==
    {ExtractedMetadataDefault,
     WithField(ExtractedMetadataDefault, "mentioned_services", Mentions),
     WithField(ExtractedMetadataDefault, "related_service_id", PyInt(12)),
     WithField(WithField(ExtractedMetadataDefault, "related_service_id", PyInt(12)),
               "mentioned_organizations", Mentions),
     WithField(WithField(ExtractedMetadataDefault, "service_type", PyStr("food")),
               "contact",
               PyModel(<<<<"phone", PyStr("abc")>>, <<"email", PyNone>>,
                         <<"website", PyNone>>>>))}

\* the chunks a splitter gives, with and without a page in their metadata
SplitChunks ==
    {<<<<<<"F", "o", "o", "d">>, <<" ">>, <<"g", "u", "i", "d", "e">>>>, <<<<"page", PyInt(0)>>>>>>,
     <<<<<<"p", "o", "l", "i", "c", "y">>, <<"\n", "\n">>, <<"x">>>>, <<<<"page", PyInt(1)>>>>>>,
     <<<<>>, <<>>>>}

\* the words and separators a chunk is written with
Words ==
    {<<"G", "u", "i", "d", "e">>, <<"p", "o", "l", "i", "c", "y">>, <<"L", "A", "W">>,
     <<"B", "r", "o", "c", "h", "u", "r", "e">>, <<"F", "l", "y", "e", "r">>, <<" ">>, <<"\n">>}

InitEnrich ==
    /\ chunks = <<>>
    /\ extracted_metadata \in ExtractionResults
    /\ enriched = <<>>
    /\ ppc = "split"
    /\ IdleFlatten
    /\ IdleClean
    /\ IdleExtract
    /\ IdlePipeline
    /\ IdleRun

\* the splitter gives one more chunk
SplitChunk ==
    /\ ppc = "split"
    /\ Len(chunks) < MaxChunks
    /\ \E chunk \in SplitChunks : chunks' = Append(chunks, chunk)
    /\ UNCHANGED <<extracted_metadata, enriched, ppc>>
    /\ UNCHANGED <<metadata, fpc, returned, response, pieces, cpc, cleaned, extractVars, pipelineVars, runVars>>

\* enriched_chunks = self._enrich_chunks(chunks, extracted_metadata, name)
CallEnrich ==
    /\ ppc = "split"
    /\ \E clock \in Clocks(Len(chunks)) :
           enriched' = _enrich_chunks(chunks, extracted_metadata, "doc.pdf", clock)
    /\ ppc' = "returned"
    /\ UNCHANGED <<chunks, extracted_metadata>>
    /\ UNCHANGED <<metadata, fpc, returned, response, pieces, cpc, cleaned, extractVars, pipelineVars, runVars>>

NextEnrich == SplitChunk \/ CallEnrich

SpecEnrich == InitEnrich /\ [][NextEnrich]_vars

\* one chunk with no text yet, and nothing found by the extractor
InitChunkText ==
    /\ chunks = <<<<<<>>, <<>>>>>>
    /\ extracted_metadata = ExtractedMetadataDefault
    /\ enriched = <<>>
    /\ ppc = "split"
    /\ IdleFlatten
    /\ IdleClean
    /\ IdleExtract
    /\ IdlePipeline
    /\ IdleRun

\* the text of the chunk gets one more word or separator
WriteWord ==
    /\ ppc = "split"
    /\ Len(chunks[1][1]) < MaxWords
    /\ \E word \in Words : chunks' = <<<<Append(chunks[1][1], word), chunks[1][2]>>>>
    /\ UNCHANGED <<extracted_metadata, enriched, ppc>>
    /\ UNCHANGED <<metadata, fpc, returned, response, pieces, cpc, cleaned, extractVars, pipelineVars, runVars>>

NextChunkText == WriteWord \/ CallEnrich

SpecChunkText == InitChunkText /\ [][NextChunkText]_vars

(***************************************************************************)
(* IngestionPipeline.process_directory and process_pdf: every file found   *)
(* is loaded, split, sent to the extractor, enriched and stored.           *)
(***************************************************************************)
MaxFiles == 2

\* str(pdf_file) of the k-th file found, and Path(file_path).name
FilePath(k) == "docs/f" \o ToString(k) \o ".pdf"
FileName(k) == "f" \o ToString(k) \o ".pdf"

\* what loader.load(file_path) can do: raise because the file is not there
\* or cannot be read, or return the pages, none or two
LoaderOutcomes ==
    {Raise("FileNotFoundError"), Raise("PdfReadError"),
     Ok(<<>>), Ok(<<"page 0", "page 1">>)}

\* the k-th chunk the splitter gives
ChunkAt(k) ==
    CASE k % 3 = 1 ->
            <<<<<<"F", "o", "o", "d">>, <<" ">>, <<"g", "u", "i", "d", "e">>>>,
              <<<<"page", PyInt(0)>>>>>>
      [] k % 3 = 2 ->
            <<<<<<"p", "o", "l", "i", "c", "y">>, <<"\n", "\n">>, <<"x">>>>,
              <<<<"page", PyInt(1)>>>>>>
      [] OTHER -> <<<<>>, <<>>>>

\* what text_splitter.split_documents(documents) can do: raise, or return
\* chunks, none included
SplitterOutcomes ==
    {Raise("SplitError")} \cup {Ok([k \in 1..n |-> ChunkAt(k)]) : n \in 0..MaxChunks}

\* what metadata_extractor.extract(text) can do: raise, or return a result,
\* with nothing found, with mentions only, or with a category and a contact
ExtractorOutcomes ==
    {Raise("ExtractError"),
     Ok(ExtractedMetadataDefault),
     Ok(WithField(ExtractedMetadataDefault, "mentioned_services", Mentions)),
     Ok(WithField(WithField(ExtractedMetadataDefault, "service_type", PyStr("food")),
                  "contact",
                  PyModel(<<<<"phone", PyStr("abc")>>, <<"email", PyNone>>,
                            <<"website", PyNone>>>>)))}

\* what vectorstore.add_documents(enriched_chunks) can do: return an id for
\* each document, or raise
StoreOutcomes(docs) == {Raise("StoreError"), Ok([k \in 1..Len(docs) |-> k])}

\* if not documents, if not chunks
NoDocuments(loaded) == Len(loaded) = 0
NoChunks(split_chunks) == Len(split_chunks) = 0

\* mutant: the text of the last chunk
last_chunk_text(split_chunks) == page_content(split_chunks[Len(split_chunks)])

\* first_chunk_text = chunks[0].page_content
first_chunk_text(split_chunks) == page_content(split_chunks[1])

\* mutant: the inner handler is missing, the exception goes on
ExtractOrRaise(outcome) == outcome

\* the inner try of process_pdf: what extract returned, or ExtractedMetadata()
\* when it raised
ExtractOrEmpty(outcome) ==
    IF outcome[1] = "raise" THEN Ok(ExtractedMetadataDefault) ELSE outcome

\* mutant: except ValueError
PdfCaughtValueError(exc) == exc = "ValueError"

\* except Exception as e, the handler of the body of process_pdf
PdfCaught(exc) == TRUE

\* the dict process_pdf returns at the end of its body
SuccessResult(file_path, pages, enriched_chunks, extracted, ids) ==
    [file |-> file_path, pages |-> Len(pages), chunks |-> Len(enriched_chunks),
     service_type |-> DictGet(Payload(extracted), "service_type"),
     city |-> DictGet(Payload(extracted), "city"),
     chunk_ids |-> ids, status |-> "success"]

\* the dict the handler returns
FailedResult(file_path, exc) == [file |-> file_path, status |-> "failed", error |-> exc]

\* mutant: results.insert(0, result)
Prepended(list, item) == <<item>> \o list

\* results.append(result)
Appended(list, item) == Append(list, item)

\* sum(1 for r in results if r.get('status') == 'success')
RECURSIVE Successful(_)
Successful(list) ==
    IF Len(list) = 0 THEN 0
    ELSE (IF list[1].status = "success" THEN 1 ELSE 0) + Successful(Tail(list))

InitDirectory ==
    /\ \E n \in 0..MaxFiles : pdf_files = [k \in 1..n |-> FilePath(k)]
    /\ position = 0
    /\ results = <<>>
    /\ documents = <<>>
    /\ extractor_calls = <<>>
    /\ add_calls = <<>>
    /\ counted = <<>>
    /\ chunks = <<>>
    /\ extracted_metadata = <<>>
    /\ enriched = <<>>
    /\ ppc = "next"
    /\ IdleFlatten
    /\ IdleClean
    /\ IdleExtract
    /\ IdleRun

\* process_pdf raises exc inside its try: the handler returns the failed
\* result, which process_directory appends
Fails(exc) ==
    IF PdfCaught(exc)
    THEN /\ results' = Appended(results, FailedResult(pdf_files[position], exc))
         /\ ppc' = "next"
    ELSE /\ results' = results
         /\ ppc' = "raised"

\* for pdf_file in pdf_files: process_pdf(str(pdf_file)) is entered
StartFile ==
    /\ ppc = "next"
    /\ position < Len(pdf_files)
    /\ position' = position + 1
    /\ ppc' = "load"
    /\ documents' = <<>>
    /\ chunks' = <<>>
    /\ extracted_metadata' = <<>>
    /\ enriched' = <<>>
    /\ extractor_calls' = <<>>
    /\ add_calls' = <<>>
    /\ UNCHANGED <<pdf_files, results, counted>>
    /\ UNCHANGED <<metadata, fpc, returned, response, pieces, cpc, cleaned>>
    /\ UNCHANGED <<extractVars, runVars>>

\* [1/5] documents = self.loader.load(file_path)
LoadPdf ==
    /\ ppc = "load"
    /\ \E outcome \in LoaderOutcomes :
          /\ documents' = outcome
          /\ IF outcome[1] = "raise" THEN Fails(outcome[2])
             ELSE IF NoDocuments(outcome[2]) THEN Fails("ValueError")
             ELSE ppc' = "split" /\ UNCHANGED results
    /\ UNCHANGED <<pdf_files, position, extractor_calls, add_calls, counted>>
    /\ UNCHANGED <<chunks, extracted_metadata, enriched>>
    /\ UNCHANGED <<metadata, fpc, returned, response, pieces, cpc, cleaned>>
    /\ UNCHANGED <<extractVars, runVars>>

\* [2/5] chunks = self.text_splitter.split_documents(documents)
SplitPdf ==
    /\ ppc = "split"
    /\ \E outcome \in SplitterOutcomes :
          IF outcome[1] = "raise"
          THEN Fails(outcome[2]) /\ UNCHANGED chunks
          ELSE /\ chunks' = outcome[2]
               /\ IF NoChunks(outcome[2])
                  THEN Fails("ValueError")
                  ELSE ppc' = "extract" /\ UNCHANGED results
    /\ UNCHANGED <<pdf_files, position, documents, extractor_calls, add_calls, counted>>
    /\ UNCHANGED <<extracted_metadata, enriched>>
    /\ UNCHANGED <<metadata, fpc, returned, response, pieces, cpc, cleaned>>
    /\ UNCHANGED <<extractVars, runVars>>

\* [3/5] extracted_metadata = self.metadata_extractor.extract(first_chunk_text),
\* inside its own try
ExtractPdf ==
    /\ ppc = "extract"
    /\ \E outcome \in ExtractorOutcomes :
          /\ extractor_calls' =
                Append(extractor_calls, <<first_chunk_text(chunks), outcome[1]>>)
          /\ LET got == ExtractOrEmpty(outcome)
             IN  IF got[1] = "raise"
                 THEN Fails(got[2]) /\ UNCHANGED extracted_metadata
                 ELSE /\ extracted_metadata' = got[2]
                      /\ ppc' = "enrich"
                      /\ UNCHANGED results
    /\ UNCHANGED <<pdf_files, position, documents, add_calls, counted>>
    /\ UNCHANGED <<chunks, enriched>>
    /\ UNCHANGED <<metadata, fpc, returned, response, pieces, cpc, cleaned>>
    /\ UNCHANGED <<extractVars, runVars>>

\* [4/5] enriched_chunks = self._enrich_chunks(chunks, extracted_metadata, name),
\* the clock showing one time during the call
EnrichPdf ==
    /\ ppc = "enrich"
    /\ \E now \in Times :
          LET clock == [k \in 1..Len(chunks) |-> now]
              got == _enrich_chunks(chunks, extracted_metadata, FileName(position), clock)
          IN  IF got[1] = "raise"
              THEN Fails(got[2]) /\ UNCHANGED enriched
              ELSE /\ enriched' = got
                   /\ ppc' = "store"
                   /\ UNCHANGED results
    /\ UNCHANGED <<pdf_files, position, documents, extractor_calls, add_calls, counted>>
    /\ UNCHANGED <<chunks, extracted_metadata>>
    /\ UNCHANGED <<metadata, fpc, returned, response, pieces, cpc, cleaned>>
    /\ UNCHANGED <<extractVars, runVars>>

\* [5/5] ids = self.vectorstore.add_documents(enriched_chunks), and the
\* result of process_pdf
StorePdf ==
    /\ ppc = "store"
    /\ \E outcome \in StoreOutcomes(enriched[2]) :
          /\ add_calls' = Append(add_calls, <<enriched[2], outcome[1]>>)
          /\ IF outcome[1] = "raise"
             THEN Fails(outcome[2])
             ELSE /\ results' =
                        Appended(results,
                                 SuccessResult(pdf_files[position], documents[2], enriched[2],
                                               extracted_metadata, outcome[2]))
                  /\ ppc' = "next"
    /\ UNCHANGED <<pdf_files, position, documents, extractor_calls, counted>>
    /\ UNCHANGED <<chunks, extracted_metadata, enriched>>
    /\ UNCHANGED <<metadata, fpc, returned, response, pieces, cpc, cleaned>>
    /\ UNCHANGED <<extractVars, runVars>>

\* after the loop: the summary statistics, and return results
Summarise ==
    /\ ppc = "next"
    /\ position = Len(pdf_files)
    /\ counted' = <<Successful(results), Len(results) - Successful(results)>>
    /\ ppc' = "done"
    /\ UNCHANGED <<pdf_files, position, results, documents, extractor_calls, add_calls>>
    /\ UNCHANGED <<chunks, extracted_metadata, enriched>>
    /\ UNCHANGED <<metadata, fpc, returned, response, pieces, cpc, cleaned>>
    /\ UNCHANGED <<extractVars, runVars>>

NextDirectory ==
    StartFile \/ LoadPdf \/ SplitPdf \/ ExtractPdf \/ EnrichPdf \/ StorePdf \/ Summarise

SpecDirectory == InitDirectory /\ [][NextDirectory]_vars

(***************************************************************************)
(* PostgresIngestionPipeline.run: load the rows, embed them batch by       *)
(* batch, then hand everything to store.write_all.                         *)
(***************************************************************************)
MaxRows == 3

\* config postgres batch_size
BatchSizes == {1, 2}

\* the column embedding_text of the rows the SQL can return
EmbeddingTexts == {"a", "b"}

\* what the target table holds before the run: a row and its vector
ExistingTable == <<<<"old", "v(old)">>>>

\* what the embedder gives for a text
Embedding(text) == "v(" \o text \o ")"

\* embedder.embed_documents(texts): a vector for each text
embed_documents(texts) == [k \in 1..Len(texts) |-> Embedding(texts[k])]

\* mutant: the check for an empty result is missing
NoRowsNever(loaded) == FALSE

\* if not rows
NoRows(loaded) == Len(loaded) = 0

\* len(batches), the number of slices rows[i:i + batch_size]
TotalBatches(loaded, size) == (Len(loaded) + size - 1) \div size

\* batches[k - 1], the k-th slice
Batch(loaded, size, k) ==
    SubSeq(loaded, (k - 1) * size + 1,
           IF k * size < Len(loaded) THEN k * size ELSE Len(loaded))

\* mutant: the loop is left after its first round
LoopDoneAfterFirst(done, total_batches) == done >= 1

\* the for loop over the batches has no batch left
LoopDone(done, total_batches) == done >= total_batches

\* the dict run returns
RunSummary(total_rows, total_batches, status) ==
    [total_rows |-> total_rows, total_batches |-> total_batches,
     table |-> "service_snapshots", status |-> status]

\* what write_all stores: every row with its vector, in place of what was there
Written(loaded, vectors) ==
    [k \in 1..Len(loaded) |-> <<loaded[k], IF k <= Len(vectors) THEN vectors[k] ELSE "">>]

InitRun ==
    /\ rows = <<>>
    /\ batch_size \in BatchSizes
    /\ all_vectors = <<>>
    /\ embed_calls = 0
    /\ write_calls = <<>>
    /\ table = ExistingTable
    /\ rpc = "load"
    /\ run_result = <<>>
    /\ IdleFlatten
    /\ IdleClean
    /\ IdleExtract
    /\ IdleEnrich
    /\ IdlePipeline

\* the SQL returns one more row
FetchRow ==
    /\ rpc = "load"
    /\ Len(rows) < MaxRows
    /\ \E text \in EmbeddingTexts : rows' = Append(rows, text)
    /\ UNCHANGED <<batch_size, all_vectors, embed_calls, write_calls, table, rpc, run_result>>
    /\ UNCHANGED <<metadata, fpc, returned, response, pieces, cpc, cleaned>>
    /\ UNCHANGED <<extractVars, enrichVars, pipelineVars>>

\* rows = self.loader.load() raises: run raises with it
LoadFails ==
    /\ rpc = "load"
    /\ rows = <<>>
    /\ rpc' = "raised"
    /\ run_result' = Raise("load")
    /\ UNCHANGED <<rows, batch_size, all_vectors, embed_calls, write_calls, table>>
    /\ UNCHANGED <<metadata, fpc, returned, response, pieces, cpc, cleaned>>
    /\ UNCHANGED <<extractVars, enrichVars, pipelineVars>>

\* rows = self.loader.load() returns; without rows run returns skipped
Load ==
    /\ rpc = "load"
    /\ IF NoRows(rows)
       THEN /\ rpc' = "returned"
            /\ run_result' = Ok(RunSummary(0, 0, "skipped"))
       ELSE /\ rpc' = "embed"
            /\ run_result' = run_result
    /\ UNCHANGED <<rows, batch_size, all_vectors, embed_calls, write_calls, table>>
    /\ UNCHANGED <<metadata, fpc, returned, response, pieces, cpc, cleaned>>
    /\ UNCHANGED <<extractVars, enrichVars, pipelineVars>>

\* one round of the loop: the next batch is embedded, or the embedder raises
\* and run raises with it
EmbedBatch ==
    /\ rpc = "embed"
    /\ ~LoopDone(Len(all_vectors) \div batch_size
                   + (IF Len(all_vectors) % batch_size = 0 THEN 0 ELSE 1),
                 TotalBatches(rows, batch_size))
    /\ embed_calls' = embed_calls + 1
    /\ \/ /\ all_vectors' =
                all_vectors \o embed_documents(Batch(rows, batch_size, embed_calls + 1))
          /\ UNCHANGED <<rpc, run_result>>
       \/ /\ rpc' = "raised"
          /\ run_result' = Raise("embed")
          /\ UNCHANGED all_vectors
    /\ UNCHANGED <<rows, batch_size, write_calls, table>>
    /\ UNCHANGED <<metadata, fpc, returned, response, pieces, cpc, cleaned>>
    /\ UNCHANGED <<extractVars, enrichVars, pipelineVars>>

\* self.store.write_all(rows, all_vectors, self.batch_size) after the loop:
\* it replaces the table and run returns success, or it raises, with the
\* table as it was or emptied, and run raises with it
WriteAll ==
    /\ rpc = "embed"
    /\ LoopDone(Len(all_vectors) \div batch_size
                  + (IF Len(all_vectors) % batch_size = 0 THEN 0 ELSE 1),
                TotalBatches(rows, batch_size))
    /\ write_calls' = Append(write_calls, <<rows, all_vectors, batch_size>>)
    /\ \/ /\ table' = Written(rows, all_vectors)
          /\ rpc' = "returned"
          /\ run_result' =
                Ok(RunSummary(Len(rows), TotalBatches(rows, batch_size), "success"))
       \/ /\ table' \in {table, <<>>}
          /\ rpc' = "raised"
          /\ run_result' = Raise("write")
    /\ UNCHANGED <<rows, batch_size, all_vectors, embed_calls>>
    /\ UNCHANGED <<metadata, fpc, returned, response, pieces, cpc, cleaned>>
    /\ UNCHANGED <<extractVars, enrichVars, pipelineVars>>

NextRun == FetchRow \/ LoadFails \/ Load \/ EmbedBatch \/ WriteAll

SpecRun == InitRun /\ [][NextRun]_vars

(***************************************************************************)
(* Vocabulary of the flattener's properties, stated on the input record    *)
(* itself and not through flatten_metadata.                                *)
(***************************************************************************)
Called == fpc \in {"done", "prepared", "again"}
Returned == Called /\ returned[1] = "ok"
Output == returned[2]

\* the record the flattener was given
InputRecord ==
    IF fpc = "prepared" THEN Payload(DumpValue(PyModel(metadata))) ELSE metadata

\* k1_k2_..._kn
RECURSIVE JoinPath(_)
JoinPath(path) ==
    IF Len(path) = 1 THEN path[1] ELSE path[1] \o "_" \o JoinPath(Tail(path))

\* the leaves of a record in iteration order, each with the keys leading to
\* it: everything that is not a non-empty mapping or a structured sub-record
RECURSIVE LeavesOf(_, _)
LeavesOf(items, path) ==
    IF Len(items) = 0 THEN <<>>
    ELSE LET v == items[1][2]
             p == Append(path, items[1][1])
             here == IF v[1] = "dict" /\ Len(v[2]) > 0 THEN LeavesOf(v[2], p)
                     ELSE IF v[1] = "model" THEN LeavesOf(DumpValue(v)[2], p)
                     ELSE <<<<p, v>>>>
         IN  here \o LeavesOf(Tail(items), path)

InputLeaves == LeavesOf(InputRecord, <<>>)

IsEmptyValue(v) == v[1] = "NoneType" \/ (v[1] \in {"dict", "list"} /\ Len(v[2]) = 0)
IsScalar(v) == v[1] \in {"str", "int", "float", "bool"}

\* a record tree of mappings, sequences, scalars and null only
RECURSIVE WellFormed(_)
WellFormed(v) ==
    CASE v[1] \in {"NoneType", "str", "int", "float", "bool"} -> TRUE
      [] v[1] = "list" -> \A i \in 1..Len(v[2]) : WellFormed(v[2][i])
      [] v[1] = "dict" -> \A i \in 1..Len(v[2]) : WellFormed(v[2][i][2])
      [] OTHER -> FALSE

\* leaf i is not followed by a non-empty leaf whose path joins to its key
LastAtKey(leaves, i) ==
    \A j \in (i + 1)..Len(leaves) :
        IsEmptyValue(leaves[j][2]) \/ JoinPath(leaves[j][1]) # JoinPath(leaves[i][1])

OutputKeys == {Output[i][1] : i \in 1..Len(Output)}

\* C1: every value of the returned mapping is a string, integer, float or
\* boolean; none is null, a mapping or a sequence.
C1_AllPrimitive ==
    Returned =>
        \A i \in 1..Len(Output) : Output[i][2][1] \in {"str", "int", "float", "bool"}

C1_Witness ==
    LET leaves == InputLeaves IN
        /\ Returned
        /\ Len(Output) > 0
        /\ \E i \in 1..Len(leaves) :
              /\ Len(leaves[i][1]) >= 2
              /\ leaves[i][2][1] = "list"
              /\ Len(leaves[i][2][2]) > 0

\* C2: on a record tree of mappings, sequences, scalars and null only,
\* flatten_metadata returns a mapping and does not raise.
C2_Total ==
    (fpc \in {"done", "again"} /\ WellFormed(PyDict(metadata))) => returned[1] = "ok"

C2_Witness ==
    /\ fpc = "done"
    /\ WellFormed(PyDict(metadata))
    /\ \E i \in 1..Len(metadata) :
          /\ metadata[i][2][1] = "list"
          /\ \E j \in 1..Len(metadata[i][2][2]) :
                metadata[i][2][2][j][1] \in {"dict", "list", "NoneType"}
    /\ returned[1] = "ok"

\* C3: a key whose value is null, an empty mapping or an empty sequence
\* contributes nothing: the keys of the output are exactly the joined paths
\* of the other leaves, and a record whose leaves are all null or empty
\* flattens to the empty mapping.
C3_EmptyOmitted ==
    LET leaves == InputLeaves IN
        Returned =>
            /\ OutputKeys = {JoinPath(leaves[i][1]) :
                               i \in {j \in 1..Len(leaves) :
                                          ~IsEmptyValue(leaves[j][2])}}
            /\ (\A i \in 1..Len(leaves) : IsEmptyValue(leaves[i][2]))
                  => Output = <<>>

C3_Witness ==
    LET leaves == InputLeaves IN
        /\ Returned
        /\ \E i, j \in 1..Len(leaves) :
              /\ leaves[i][2][1] = "NoneType"
              /\ leaves[j][2][1] \in {"dict", "list"}
              /\ Len(leaves[j][1]) >= 2
        /\ \A i \in 1..Len(leaves) : IsEmptyValue(leaves[i][2])
        /\ Output = <<>>

HasEntry(d, key, value) == \E k \in 1..Len(d) : d[k] = <<key, value>>

\* C4 as claimed: every scalar leaf reached through keys k1, ..., kn is in
\* the output under the key k1_..._kn.
C4_KeyJoin_Claimed ==
    LET leaves == InputLeaves IN
        Returned =>
            \A i \in 1..Len(leaves) :
                IsScalar(leaves[i][2])
                    => HasEntry(Output, JoinPath(leaves[i][1]), leaves[i][2])

\* C4, amended: every scalar leaf reached through keys k1, ..., kn has the
\* key k1_..._kn in the output, and the output holds the leaf under that key
\* unless a non-empty leaf visited later joins to the same key.
C4_KeyJoin ==
    LET leaves == InputLeaves IN
        Returned =>
            \A i \in 1..Len(leaves) :
                IsScalar(leaves[i][2]) =>
                    /\ JoinPath(leaves[i][1]) \in OutputKeys
                    /\ LastAtKey(leaves, i)
                          => HasEntry(Output, JoinPath(leaves[i][1]), leaves[i][2])

C4_Witness ==
    LET leaves == InputLeaves IN
        /\ Returned
        /\ \E i \in 1..Len(leaves) :
              /\ Len(leaves[i][1]) = 3
              /\ IsScalar(leaves[i][2])
              /\ Output = <<<<JoinPath(leaves[i][1]), leaves[i][2]>>>>

\* the JSON array text of a sequence, element by element in order
RECURSIVE JsonArrayBody(_)
JsonArrayBody(elems) ==
    IF Len(elems) = 0 THEN ""
    ELSE json_dumps(elems[1])
         \o (IF Len(elems) > 1 THEN ", " ELSE "") \o JsonArrayBody(Tail(elems))

JsonArrayText(elems) == "[" \o JsonArrayBody(elems) \o "]"

IsNonEmptyList(v) == v[1] = "list" /\ Len(v[2]) > 0

NonEmptyLeafCount ==
    Cardinality({i \in 1..Len(InputLeaves) : ~IsEmptyValue(InputLeaves[i][2])})

\* C5 as claimed: every non-empty sequence is in the output as one entry
\* under its flattened key, holding the JSON array text of the sequence.
C5_ListAsJson_Claimed ==
    LET leaves == InputLeaves IN
        Returned =>
            \A i \in 1..Len(leaves) :
                IsNonEmptyList(leaves[i][2]) =>
                    HasEntry(Output, JoinPath(leaves[i][1]),
                             PyStr(JsonArrayText(leaves[i][2][2])))

\* C5, amended: a non-empty sequence is written as one entry under its
\* flattened key, holding the JSON array text of the whole sequence in
\* element order, unless a non-empty leaf visited later joins to the same
\* key; a sequence never adds more than one key to the output.
C5_ListAsJson ==
    LET leaves == InputLeaves IN
        Returned =>
            /\ \A i \in 1..Len(leaves) :
                  (IsNonEmptyList(leaves[i][2]) /\ LastAtKey(leaves, i)) =>
                      HasEntry(Output, JoinPath(leaves[i][1]),
                               PyStr(JsonArrayText(leaves[i][2][2])))
            /\ Len(Output) <= NonEmptyLeafCount

C5_Witness ==
    LET leaves == InputLeaves IN
        /\ Returned
        /\ Len(leaves) = 1
        /\ IsNonEmptyList(leaves[1][2])
        /\ Len(leaves[1][2][2]) = 2
        /\ leaves[1][2][2][1][1] # leaves[1][2][2][2][1]
        /\ Len(Output) = 1

IsFlat(items) == \A i \in 1..Len(items) : IsScalar(items[i][2])

\* C6: flattening an already-flat mapping returns a mapping equal to it,
\* so flattening the result of a flattening changes nothing.
C6_Idempotent ==
    (fpc \in {"done", "again"} /\ IsFlat(metadata)) => returned = Ok(metadata)

C6_Witness ==
    /\ fpc = "again"
    /\ Len(metadata) = 2
    /\ \E i \in 1..2 : metadata[i] = <<"a_a", PyFloat("1.5")>>
    /\ \E i \in 1..2 : metadata[i][2][1] = "bool"
    /\ returned = Ok(metadata)

\* C7 as claimed: every string, integer, float and boolean leaf is in the
\* output with its type and its value.
C7_TypeKept_Claimed ==
    LET leaves == InputLeaves IN
        Returned =>
            \A i \in 1..Len(leaves) :
                IsScalar(leaves[i][2]) =>
                    LET kept == DictGet(Output, JoinPath(leaves[i][1]))
                    IN  /\ kept[1] = leaves[i][2][1]
                        /\ kept[2] = leaves[i][2][2]

\* C7, amended: a string, integer, float or boolean leaf is kept with its
\* type and its value (a boolean stays a boolean, an integer an integer),
\* unless a non-empty leaf visited later joins to the same key.
C7_TypeKept ==
    LET leaves == InputLeaves IN
        Returned =>
            \A i \in 1..Len(leaves) :
                (IsScalar(leaves[i][2]) /\ LastAtKey(leaves, i)) =>
                    LET kept == DictGet(Output, JoinPath(leaves[i][1]))
                    IN  /\ kept[1] = leaves[i][2][1]
                        /\ kept[2] = leaves[i][2][2]

C7_Witness ==
    LET leaves == InputLeaves IN
        /\ Returned
        /\ \E i, j \in 1..Len(leaves) :
              /\ leaves[i][2] = PyBool(TRUE)
              /\ leaves[j][2] = PyInt(1)
              /\ HasEntry(Output, JoinPath(leaves[i][1]), PyBool(TRUE))
              /\ HasEntry(Output, JoinPath(leaves[j][1]), PyInt(1))

(***************************************************************************)
(* Vocabulary of the cleaner's claims.                                     *)
(***************************************************************************)
Cleaned == cpc = "done"

\* the raw text without its leading and trailing whitespace
Trimmed == strip(response)

\* the first place, from i on, where a fence delimiter stands; 0 if none
FenceFrom(text, i) ==
    IF \E j \in i..Len(text) : StartsAt(text, j, Fence)
    THEN CHOOSE j \in i..Len(text) :
            /\ StartsAt(text, j, Fence)
            /\ \A k \in i..(j - 1) : ~StartsAt(text, k, Fence)
    ELSE 0

HasFence(text) == FenceFrom(text, 1) # 0

\* the first fence delimiter is followed by another one
HasClosedFence(text) ==
    HasFence(text) /\ FenceFrom(text, FenceFrom(text, 1) + 3) # 0

\* what stands between the first fence delimiter, with its json tag if it
\* has one, and the next fence delimiter
FencedContent(text) ==
    LET open == FenceFrom(text, 1)
        inner == SubSeq(text, open + 3, FenceFrom(text, open + 3) - 1)
    IN  IF StartsAt(inner, 1, JsonTag) THEN SubSeq(inner, 5, Len(inner)) ELSE inner

\* the text is one object, from a "{" to a "}", with no colon in it
IsPlainObject(text) ==
    /\ Len(text) >= 2
    /\ text[1] = "{"
    /\ text[Len(text)] = "}"
    /\ \A i \in 1..Len(text) : text[i] # ":"

FirstOpen(text) ==
    CHOOSE i \in 1..Len(text) : text[i] = "{" /\ \A j \in 1..(i - 1) : text[j] # "{"

LastClose(text) ==
    CHOOSE i \in 1..Len(text) : text[i] = "}" /\ \A j \in (i + 1)..Len(text) : text[j] # "}"

\* a "{" and a "}" with the last "}" after the first "{"
HasSpan(text) ==
    /\ \E i \in 1..Len(text) : text[i] = "{"
    /\ \E i \in 1..Len(text) : text[i] = "}"
    /\ LastClose(text) > FirstOpen(text)

Span(text) == SubSeq(text, FirstOpen(text), LastClose(text))

\* the text has a colon followed, after whitespace or none, by "null" in quotes
HasQuotedNullValue(text) ==
    \E i \in 1..Len(text) :
        text[i] = ":" /\ StartsAt(text, i + 1 + SpaceRun(text, i + 1), QuotedNull)

\* C8: when the raw text holds a closed fenced block, with or without the json
\* tag, the cleaner keeps only what the first fenced region holds: the result
\* is what the brace and null steps make of the trimmed content of that region,
\* whatever stands before the first fence and after the fence that closes it;
\* a plain object in the first fenced region is returned as it is.
C8_FirstFencedRegion ==
    (Cleaned /\ HasClosedFence(Trimmed)) =>
        LET content == strip(FencedContent(Trimmed))
        IN  /\ cleaned = NullStep(BraceStep(content))
            /\ IsPlainObject(content) => cleaned = content

\* a tagged closed fence with text before it and a brace after it, all dropped
C8_Witness ==
    /\ Cleaned
    /\ response = <<"x">> \o Fence \o JsonTag \o <<"{">> \o Fence \o <<"}">>
    /\ FencedContent(Trimmed) = <<"{">>
    /\ cleaned = <<"{">>

\* C9: when the raw text holds an opening fence and no closing fence, the fence
\* step discards nothing: the brace step works on the whole trimmed text, and
\* a plain object that follows the unclosed fence is returned.
C9_UnclosedFence ==
    (Cleaned /\ HasFence(Trimmed) /\ ~HasClosedFence(Trimmed)) =>
        /\ cleaned = NullStep(BraceStep(Trimmed))
        /\ (HasSpan(Trimmed) /\ IsPlainObject(Span(Trimmed))) => cleaned = Span(Trimmed)

C9_Witness ==
    /\ Cleaned
    /\ response = <<"x">> \o Fence \o JsonTag \o <<"\n", "{", "}">>
    /\ cleaned = <<"{", "}">>

\* C10 as claimed: when the text after the fence step has a "{" and a "}" with
\* the last "}" after the first "{", the cleaner returns exactly the span from
\* the first "{" to the last "}"; otherwise the text is not sliced.
C10_BraceSpan_Claimed ==
    Cleaned =>
        LET text == FenceStep(Trimmed)
        IN  IF HasSpan(text) THEN cleaned = Span(text) ELSE cleaned = NullStep(text)

\* C10: when the text after the fence step has a "{" and a "}" with the last
\* "}" after the first "{", the cleaner returns the span from the first "{" to
\* the last "}" inclusive, without the commentary before and after it, with
\* each quoted "null" value in it rewritten to null, and exactly the span when
\* it has no such value; otherwise the text is not sliced.
C10_BraceSpan ==
    Cleaned =>
        LET text == FenceStep(Trimmed)
        IN  IF HasSpan(text)
            THEN /\ cleaned = NullStep(Span(text))
                 /\ ~HasQuotedNullValue(Span(text)) => cleaned = Span(text)
            ELSE cleaned = NullStep(text)

C10_Witness ==
    /\ Cleaned
    /\ response = <<"x", "{", ":">> \o QuotedNull \o <<"}">>
    /\ cleaned = <<"{">> \o ColonNull \o <<"}">>

\* a quoted "null" field value starts at i: a colon, whitespace or none, then
\* "null" in quotes
NullValueAt(text, i) ==
    /\ i \in 1..Len(text)
    /\ text[i] = ":"
    /\ StartsAt(text, i + 1 + SpaceRun(text, i + 1), QuotedNull)

\* position j lies in a quoted "null" field value
InNullValue(text, j) ==
    \E i \in 1..j : NullValueAt(text, i) /\ j <= i + SpaceRun(text, i + 1) + 6

\* the text, position by position up to n: a quoted "null" field value gives
\* colon, space, null where it starts, every other character is kept
RECURSIVE NullValuesRewritten(_, _)
NullValuesRewritten(text, n) ==
    IF n = 0 THEN <<>>
    ELSE NullValuesRewritten(text, n - 1) \o
         (IF NullValueAt(text, n) THEN ColonNull
          ELSE IF InNullValue(text, n) THEN <<>>
          ELSE <<text[n]>>)

\* C11: the cleaner replaces every quoted "null" field value (a colon,
\* whitespace or none, "null" in quotes) of the sliced text by the null
\* literal and this pass alters nothing else: every character outside such a
\* value is kept in its place, a text without such a value is returned
\* unchanged (a string that only starts with null, or a "null" with no colon
\* before it), and no such value is left in the result.
C11_NullValues ==
    Cleaned =>
        LET text == BraceStep(FenceStep(Trimmed))
        IN  /\ cleaned = NullValuesRewritten(text, Len(text))
            /\ ~HasQuotedNullValue(text) => cleaned = text
            /\ ~HasQuotedNullValue(cleaned)

\* a "null" without a colon and a string that starts with null, both kept,
\* and one value rewritten
C11_Witness ==
    /\ Cleaned
    /\ response = QuotedNull \o <<":">> \o OpenNull \o <<":">> \o QuotedNull
    /\ cleaned = QuotedNull \o <<":">> \o OpenNull \o ColonNull

(***************************************************************************)
(* Vocabulary of the extractor's claims.                                   *)
(***************************************************************************)
Extracted == epc = "done"

\* extract returned a value to its caller; otherwise an exception came out
ExtractReturned == result[1] = "ok"

\* the field of the returned ExtractedMetadata
ResultField(name) == DictGet(Payload(result[2]), name)

\* every field of the model is there and None
AllFieldsNone(model) ==
    /\ TypeOf(model) = "model"
    /\ Len(Payload(model)) = Len(FieldNames)
    /\ \A k \in 1..Len(FieldNames) : Payload(model)[k] = <<FieldNames[k], PyNone>>

LlmFailed == reply[1] = "raise"
ContentIsText == reply[1] = "content" /\ reply[2][1] = "str"
CleanedContent == _clean_response(reply[2][2])
NotJson == ContentIsText /\ json_loads(CleanedContent)[1] = "raise"
Decoded == json_loads(CleanedContent)[2]
DecodedObject == ContentIsText /\ ~NotJson /\ IsDict(Decoded)
MappingFails == ContentIsText /\ ~NotJson /\ model_validate(Decoded)[1] = "raise"

\* what the decoded object gives for the k-th field taken alone: its value
\* when it is well typed, None when it is absent or of the wrong type
FieldAlone(k) ==
    LET name == ExtractedMetadataFields[k][1]
        alone == IF HasKey(Payload(Decoded), name)
                 THEN ValidateValue(DictGet(Payload(Decoded), name),
                                    ExtractedMetadataFields[k][2])
                 ELSE Ok(PyNone)
    IN  IF alone[1] = "ok" THEN alone[2] ELSE PyNone

\* C12: extract never lets an exception out: it always returns a value, and
\* when the LLM call fails, when the cleaned text is not valid JSON, or when
\* the decoded value cannot be mapped into the model, the value returned is
\* an ExtractedMetadata with every field None.
C12_NeverPropagates ==
    Extracted =>
        /\ ExtractReturned
        /\ (LlmFailed \/ NotJson \/ MappingFails) => AllFieldsNone(result[2])

\* an object between commentary with a field of the wrong type: the mapping
\* fails and every field is None
C12_Witness ==
    /\ Extracted
    /\ reply = Content(<<"str", <<"x", " ">> \o Object(<<Field("related_service_id", <<Quoted("abc")>>)>>) \o <<" ", "x">>>>)
    /\ MappingFails
    /\ result = Ok(ExtractedMetadataDefault)

\* C13 as claimed: when the cleaned text decodes to an object, a field whose
\* value has the wrong type is None in the result and every other field has
\* its decoded value; keys that are no field are ignored.
C13_FieldLeniency_Claimed ==
    (Extracted /\ DecodedObject) =>
        /\ ExtractReturned
        /\ \A k \in 1..Len(ExtractedMetadataFields) :
               ResultField(ExtractedMetadataFields[k][1]) = FieldAlone(k)

ServiceTypes ==
    {"food", "housing", "healthcare", "legal", "education", "employment",
     "general", "other"}

\* C19 as claimed: in every ExtractedMetadata that extract returns,
\* service_type is None or one of the eight categories.
C19_ServiceTypeEnum_Claimed ==
    (Extracted /\ ExtractReturned) =>
        \/ ResultField("service_type") = PyNone
        \/ \E type \in ServiceTypes : ResultField("service_type") = PyStr(type)

\* C20 as claimed: in every ExtractedMetadata that extract returns, a
\* related_service_id that is not None comes with contact, location and
\* service_details all None.
C20_DetailsOnlyUnlinked_Claimed ==
    (Extracted /\ ExtractReturned /\ ResultField("related_service_id") # PyNone) =>
        /\ ResultField("contact") = PyNone
        /\ ResultField("location") = PyNone
        /\ ResultField("service_details") = PyNone

(***************************************************************************)
(* Vocabulary of the claims about the enrichment.                          *)
(***************************************************************************)
Enriched == ppc = "returned"

\* _enrich_chunks returned its list
EnrichReturned == enriched[1] = "ok"

Records == enriched[2]
RecordText(k) == Records[k][1]
RecordMeta(k) == Records[k][2]
KeysOf(d) == {d[i][1] : i \in 1..Len(d)}

\* the fields of a chunk record other than the embedded extraction result
SourceAndChunkFields ==
    {"source_filename", "source_url", "page_number", "extracted_date",
     "pipeline_version", "document_type", "source_type", "chunk_index",
     "token_count", "keywords", "language", "needs_review"}

\* the keys the extraction result can give: extracted_<field>, and
\* extracted_<field>_<field> for the fields of a detail record
ExtractedKeys ==
    {"extracted_" \o FieldNames[k] : k \in 1..Len(FieldNames)}
    \cup {"extracted_contact_" \o ContactInfoFields[k][1] : k \in 1..Len(ContactInfoFields)}
    \cup {"extracted_location_" \o LocationFields[k][1] : k \in 1..Len(LocationFields)}
    \cup {"extracted_service_details_" \o ServiceDetailsFields[k][1] :
              k \in 1..Len(ServiceDetailsFields)}

\* C14: a chunk record whose extraction result has every field None is
\* flattened to a record that holds source_filename, chunk_index, token_count,
\* extracted_date and the other top-level fields with a value, nothing but
\* top-level fields, and no extracted_ key of the extraction result.
C14_AllNullExtraction ==
    (Enriched /\ AllFieldsNone(extracted_metadata)) =>
        /\ EnrichReturned
        /\ Len(Records) = Len(chunks)
        /\ \A k \in 1..Len(Records) :
               LET keys == KeysOf(RecordMeta(k))
               IN  /\ keys \subseteq SourceAndChunkFields
                   /\ {"source_filename", "chunk_index", "token_count", "extracted_date",
                       "pipeline_version", "document_type", "source_type", "language",
                       "needs_review"} \subseteq keys
                   /\ keys \cap ExtractedKeys = {}

C14_Witness ==
    /\ Enriched
    /\ EnrichReturned
    /\ extracted_metadata = ExtractedMetadataDefault
    /\ Len(Records) = 2
    /\ KeysOf(RecordMeta(1)) =
           {"source_filename", "page_number", "extracted_date", "pipeline_version",
            "document_type", "source_type", "chunk_index", "token_count", "language",
            "needs_review"}

\* the letters of one of the words stand in the text from some place on, in
\* upper or lower case
Occurs(words, text) ==
    \E w \in 1..Len(words) : \E i \in 1..Len(text) :
        /\ i + Len(words[w]) - 1 <= Len(text)
        /\ \A j \in 1..Len(words[w]) : LowerChar(text[i + j - 1]) = words[w][j]

Buckets ==
    <<<<"brochure", BrochureWords>>, <<"guide", GuideWords>>,
      <<"policy", PolicyWords>>, <<"flyer", FlyerWords>>>>

\* C15: the document type of a chunk is the first of brochure, guide, policy,
\* flyer of which a trigger occurs in the text, whatever the case of its
\* letters, and unknown when no trigger occurs; a text with guide and policy
\* and no brochure trigger is a guide.
C15_FirstBucketWins ==
    Enriched =>
        /\ EnrichReturned
        /\ \A k \in 1..Len(Records) :
               LET text == RecordText(k)
                   type == DictGet(RecordMeta(k), "document_type")
               IN  /\ \A b \in 1..Len(Buckets) :
                          type = PyStr(Buckets[b][1]) <=>
                              /\ Occurs(Buckets[b][2], text)
                              /\ \A a \in 1..(b - 1) : ~Occurs(Buckets[a][2], text)
                   /\ type = PyStr("unknown") <=>
                          \A b \in 1..Len(Buckets) : ~Occurs(Buckets[b][2], text)
                   /\ ( /\ Occurs(<<<<"g", "u", "i", "d", "e">>>>, text)
                        /\ Occurs(<<<<"p", "o", "l", "i", "c", "y">>>>, text)
                        /\ ~Occurs(BrochureWords, text) ) => type = PyStr("guide")

\* policy stands before Guide in the text, and the chunk is a guide
C15_Witness ==
    /\ Enriched
    /\ EnrichReturned
    /\ chunks[1][1] = <<<<"p", "o", "l", "i", "c", "y">>, <<" ">>, <<"G", "u", "i", "d", "e">>>>
    /\ DictGet(RecordMeta(1), "document_type") = PyStr("guide")

\* C16: for n chunks _enrich_chunks returns n records in the order of the
\* chunks; the record at position i, counted from 0, has chunk_index i and the
\* text of chunk i.
C16_IndexFollowsOrder ==
    Enriched =>
        /\ EnrichReturned
        /\ Len(Records) = Len(chunks)
        /\ \A k \in 1..Len(chunks) :
               /\ RecordText(k) = page_content(chunks[k])
               /\ HasEntry(RecordMeta(k), "chunk_index", PyInt(k - 1))

C16_Witness ==
    /\ Enriched
    /\ EnrichReturned
    /\ Len(chunks) = 3
    /\ page_content(chunks[1]) # page_content(chunks[2])
    /\ page_content(chunks[2]) # page_content(chunks[3])
    /\ HasEntry(RecordMeta(3), "chunk_index", PyInt(2))

\* the places of a text where a word starts: a character that is no
\* whitespace, at the start of the text or after whitespace
WordStarts(text) ==
    {i \in 1..Len(text) : ~IsSpace(text[i]) /\ (i = 1 \/ IsSpace(text[i - 1]))}

\* C17: token_count of a chunk record is the number of maximal runs of
\* characters that are no whitespace in the text of the chunk; it is 0 for an
\* empty text and for a text of whitespace only, and never negative.
C17_TokenCount ==
    Enriched =>
        /\ EnrichReturned
        /\ \A k \in 1..Len(Records) :
               LET text == RecordText(k)
                   count == DictGet(RecordMeta(k), "token_count")
               IN  /\ count = PyInt(Cardinality(WordStarts(text)))
                   /\ Payload(count) >= 0
                   /\ (\A i \in 1..Len(text) : IsSpace(text[i])) => count = PyInt(0)

\* two words with two separators between them
C17_Witness ==
    /\ Enriched
    /\ EnrichReturned
    /\ RecordText(1) = <<"G", "u", "i", "d", "e">> \o <<"\n", "\n">> \o <<"p", "o", "l", "i", "c", "y">>
    /\ HasEntry(RecordMeta(1), "token_count", PyInt(2))

\* a list of mentions that is not empty
IsMention(value) == IsList(value) /\ Len(Payload(value)) > 0

ExtractedField(name) == DictGet(Payload(extracted_metadata), name)

\* C18 as claimed: needs_review of a chunk record is true when the extraction
\* result has mentions and no identity link, and false otherwise.
C18_NeedsReview_Claimed ==
    (Enriched /\ EnrichReturned) =>
        \A k \in 1..Len(Records) :
            DictGet(RecordMeta(k), "needs_review") =
                PyBool(/\ \/ IsMention(ExtractedField("mentioned_services"))
                          \/ IsMention(ExtractedField("mentioned_organizations"))
                          \/ IsMention(ExtractedField("mentioned_locations"))
                       /\ ExtractedField("related_service_id") = PyNone
                       /\ ExtractedField("related_resource_id") = PyNone)

(***************************************************************************)
(* The cleaner applied to its own result.                                  *)
(***************************************************************************)
\* C30: cleaning a cleaned text changes nothing; a cleaned text holds no closed
\* fenced region and no quoted "null" field value.
C30_Idempotent ==
    Cleaned =>
        /\ _clean_response(cleaned) = cleaned
        /\ ~HasClosedFence(cleaned)
        /\ ~HasQuotedNullValue(cleaned)

\* a fenced region with a quoted "null" field value, after other text: the
\* fence step and the null step act in the first pass
C30_Witness ==
    /\ Cleaned
    /\ response = <<"x">> \o Fence \o <<":">> \o QuotedNull \o Fence
    /\ cleaned = ColonNull
    /\ _clean_response(cleaned) = cleaned

(***************************************************************************)
(* Two paths of a record that join to one flattened key.                   *)
(***************************************************************************)
\* leaves i and j, i visited before j, are not empty and join to the same key
Collide(leaves, i, j) ==
    /\ i < j
    /\ ~IsEmptyValue(leaves[i][2])
    /\ ~IsEmptyValue(leaves[j][2])
    /\ JoinPath(leaves[i][1]) = JoinPath(leaves[j][1])

HasCollision(leaves) == \E i, j \in 1..Len(leaves) : Collide(leaves, i, j)

\* C29: when two paths of the record join to the same flattened key, the
\* flattener raises nothing because of it (it raises only for a sequence json
\* cannot write), the output holds the key once, with the value of the path
\* visited last and not the value of an earlier one, and the output has fewer
\* entries than the record has non-empty leaves.
C29_LaterPathWins ==
    LET leaves == InputLeaves IN
        (fpc \in {"done", "prepared"} /\ HasCollision(leaves)) =>
            /\ returned[1] = "raise" =>
                   \E k \in 1..Len(leaves) :
                       IsNonEmptyList(leaves[k][2]) /\ ~JsonSerializable(leaves[k][2])
            /\ returned[1] = "ok" =>
                   /\ Len(Output) < NonEmptyLeafCount
                   /\ \A i, j \in 1..Len(leaves) :
                          Collide(leaves, i, j) =>
                              LET key == JoinPath(leaves[j][1])
                              IN  /\ Cardinality({k \in 1..Len(Output) : Output[k][1] = key}) = 1
                                  /\ (IsScalar(leaves[j][2]) /\ LastAtKey(leaves, j)) =>
                                         /\ HasEntry(Output, key, leaves[j][2])
                                         /\ leaves[i][2] # leaves[j][2] =>
                                                ~HasEntry(Output, key, leaves[i][2])

\* the key a_a at the top and the key a inside the mapping a: the output has
\* the one key a_a with the value visited last
C29_Witness ==
    /\ fpc = "done"
    /\ metadata = <<<<"a_a", PyInt(1)>>, <<"a", PyDict(<<<<"a", PyStr("s")>>>>)>>>>
    /\ returned = Ok(<<<<"a_a", PyStr("s")>>>>)

(***************************************************************************)
(* What a call of the flattener does to its argument.                      *)
(***************************************************************************)
\* a value that can be changed in place: a value of this kind in the result
\* is an object of the argument, shared with it
IsMutable(value) == TypeOf(value) \in {"dict", "list", "model", "object"}

\* the step in which flatten_metadata(metadata) is called and returns
FlattenStep == fpc = "start" /\ fpc' = "done"

SecondRun(clock) == _enrich_chunks(chunks, extracted_metadata, "doc.pdf", clock)

RunReturned == rpc = "returned"
RunRaised(where) == rpc = "raised" /\ run_result = Raise(where)

\* C23: write_all is called at most once in a run, with all the rows and a
\* vector for each of them, after the last batch was embedded; no embedding
\* call follows it; when loading or embedding raises, write_all is not called;
\* and the table changes in no step other than the call of write_all.
C23_WriteAfterEmbedding ==
    /\ [](/\ Len(write_calls) <= 1
          /\ write_calls # <<>> =>
                 /\ write_calls[1] = <<rows, all_vectors, batch_size>>
                 /\ Len(all_vectors) = Len(rows)
                 /\ embed_calls = TotalBatches(rows, batch_size)
                 /\ \A k \in 1..Len(rows) : all_vectors[k] = Embedding(rows[k])
          /\ (RunRaised("load") \/ RunRaised("embed")) =>
                 write_calls = <<>> /\ table = ExistingTable)
    /\ [][/\ write_calls # <<>> => embed_calls' = embed_calls
          /\ write_calls' = write_calls => table' = table]_vars

\* the second of two batches raises: three rows, one embedding call made with
\* success, no call of write_all
C23_Witness ==
    /\ RunRaised("embed")
    /\ Len(rows) = 3
    /\ batch_size = 2
    /\ embed_calls = 2
    /\ Len(all_vectors) = 2
    /\ write_calls = <<>>
    /\ table = ExistingTable

\* C27: when the loader returns no rows, run returns skipped with total_rows 0
\* and total_batches 0, without a call of the embedder or of write_all and
\* with the table as it was; when it returns rows and nothing raises, run
\* returns success with total_rows the number of rows.
C27_EmptySourceSkipped ==
    /\ (rpc # "load" /\ ~RunRaised("load") /\ rows = <<>>) =>
           /\ RunReturned
           /\ run_result = Ok(RunSummary(0, 0, "skipped"))
           /\ embed_calls = 0
           /\ write_calls = <<>>
           /\ table = ExistingTable
    /\ (RunReturned /\ rows # <<>>) =>
           /\ run_result[1] = "ok"
           /\ run_result[2].status = "success"
           /\ run_result[2].total_rows = Len(rows)
    /\ (rpc \notin {"load", "raised"} /\ rows # <<>> /\ write_calls # <<>>) => RunReturned

\* the run on an empty source has returned
C27_Witness ==
    /\ RunReturned
    /\ rows = <<>>
    /\ run_result[2].status = "skipped"
    /\ table = ExistingTable

(***************************************************************************)
(* Properties of process_pdf and process_directory.                        *)
(***************************************************************************)
\* process_pdf has returned for the file in hand
PdfReturned == ppc \in {"next", "done"} /\ position >= 1 /\ Len(results) >= 1
LastResult == results[Len(results)]

\* the extractor was called and raised, or returned a result with every
\* field None
ExtractionGaveNothing ==
    /\ extractor_calls # <<>>
    /\ extractor_calls[1][2] = "raise" \/ AllFieldsNone(extracted_metadata)

\* every chunk was enriched and the enriched chunks were handed to the store
AllChunksStored ==
    /\ enriched # <<>>
    /\ enriched[1] = "ok"
    /\ Len(Records) = Len(chunks)
    /\ \A k \in 1..Len(chunks) : RecordText(k) = page_content(chunks[k])
    /\ Len(add_calls) = 1
    /\ add_calls[1][1] = Records

C22_NeverRaises ==
    /\ ppc # "raised"
    /\ PdfReturned =>
           /\ LastResult.file = pdf_files[position]
           /\ LastResult.status \in {"success", "failed"}
           /\ LastResult.status = "failed" => LastResult.error # ""
           /\ documents[1] = "raise" =>
                  /\ LastResult = FailedResult(pdf_files[position], documents[2])
                  /\ add_calls = <<>>
           /\ (documents[1] = "ok" /\ Len(documents[2]) = 0) =>
                  /\ LastResult.status = "failed"
                  /\ add_calls = <<>>
           /\ (documents[1] = "ok" /\ Len(documents[2]) > 0 /\ Len(chunks) = 0) =>
                  /\ LastResult.status = "failed"
                  /\ add_calls = <<>>
           /\ (add_calls # <<>> /\ add_calls[1][2] = "raise") =>
                  LastResult.status = "failed"

\* the file is not there
C22_Witness ==
    /\ PdfReturned
    /\ documents = Raise("FileNotFoundError")
    /\ LastResult = FailedResult(pdf_files[position], "FileNotFoundError")
    /\ add_calls = <<>>

\* the entries of the k-th record that come from the extraction result
ExtractedEntries(k) ==
    {RecordMeta(k)[n] : n \in {m \in 1..Len(RecordMeta(k)) : RecordMeta(k)[m][1] \in ExtractedKeys}}

C28_OneResultPerFile ==
    /\ ppc # "raised"
    /\ Len(results) \in {position, position - 1}
    /\ ppc \in {"next", "done"} => Len(results) = position
    /\ \A k \in 1..Len(results) :
           /\ results[k].file = pdf_files[k]
           /\ results[k].status \in {"success", "failed"}
    /\ ppc = "done" =>
           /\ Len(results) = Len(pdf_files)
           /\ counted[1] = Cardinality({k \in 1..Len(results) : results[k].status = "success"})
           /\ counted[2] = Cardinality({k \in 1..Len(results) : results[k].status = "failed"})
           /\ counted[1] + counted[2] = Len(pdf_files)

\* the first of two files failed and the second was stored
C28_Witness ==
    /\ ppc = "done"
    /\ Len(pdf_files) = 2
    /\ results[1].status = "failed"
    /\ results[2].status = "success"
    /\ counted = <<1, 1>>

====
